---------------------------- MODULE Spec2Model ----------------------------
(***************************************************************************)
(* Model of the claim-evaluation core of the FRA prototype:                *)
(*   asset_evaluator.evaluate_assets      (batch loop, verdict, result row) *)
(*   asset_evaluator.recommend_schemes    (scheme scoring of a result row)  *)
(*   groundwater_offline.groundwater_k_nearest / groundwater_stats          *)
(*   backend/scheme_engine.recommend      (rule engine, overall priority)   *)
(*                                                                         *)
(* Units.  All quantities are integers:                                    *)
(*   area       : mha = 0.001 ha (unrounded), cha = 0.01 ha (round(x, 2))   *)
(*   depth      : cm  = 0.01 m                                              *)
(*   distance   : um  = 1e-6 km (unrounded), m = 0.001 km (round(x, 3))     *)
(*   coordinates: whole degrees                                            *)
(* Python's None is the empty tuple <<>>, a present value v is <<v>>.       *)
(***************************************************************************)
EXTENDS Integers, Sequences, FiniteSets, TLC

VARIABLES
    claims,     \* the rows of table fra_claims, in reading order
    csv_exists, \* whether sample_data/groundwater_levels.csv exists
    csv,        \* the rows of sample_data/groundwater_levels.csv
    gw_k,       \* evaluate_assets parameter gw_k
    pc,         \* "loop" while evaluate_assets iterates, "done" once it returned,
                \* "raised" once an exception left it
    i,          \* index of the next claim of the loop (1-based)
    parts,      \* local `parts` of evaluate_assets: survives from one iteration to the next
    results,    \* local `results`: the rows appended so far
    calls,      \* per processed claim: what the iteration called and computed (history)
    fetches,    \* number of calls of map_assets_from_satellite_image so far (history)
    loads,      \* number of times _load_wells has read the CSV so far (history)
    q,          \* groundwater query under test: [lat, lon, k, max_km]
    out,        \* the answers: [called, wells, wells_csv] of groundwater_k_nearest,
                \* [stats_called, stats, stats_csv] of groundwater_stats (the
                \* file each call read), raised: the calls that raised
    inp,        \* recommender call under test: [fn, row, max_schemes]
    hist,       \* the recommender calls made so far, in order: [in, out]
    CONFIG,     \* module dict CONFIG of backend/scheme_engine.py: the thresholds
                \* recommend reads at every call
    mi,         \* asset mapping: number of the claim being mapped (0 before the first)
    mstep,      \* asset mapping: index in Steps of the next step of detect_assets
    mpc,        \* asset mapping: where the iteration of the claim stands
    mlog,       \* asset mapping: the events so far, in order (history)
    grid,       \* pixel functions under test: the index grid
    cuts,       \* pixel functions under test: the two MNDWI cutoffs
    wmask,      \* pixel functions under test: the water masks computed so far
    geo         \* pixel functions under test: a pixel-to-geographic query and its answer

vars == <<claims, csv_exists, csv, gw_k, pc, i, parts, results, calls, fetches, loads,
         q, out, inp, hist, CONFIG, mi, mstep, mpc, mlog, grid, cuts, wmask, geo>>

\* the variables of the asset-mapping steps and of the pixel functions
mapvars == <<mi, mstep, mpc, mlog>>
maskvars == <<grid, cuts, wmask, geo>>

\* scheme_engine.py:12-17: the dict as the import of the module leaves it,
\* areas in cha (0.01 ha), the depth in cm, the distance in m
ConfigLiteral ==
    [veg_min_ha     |-> 200,
     water_min_ha   |-> 5,
     gw_ok_m        |-> 1500,
     gw_far_km_flag |-> 100000]

\* nothing mapped yet, no pixel function applied
MapIdle == mi = 0 /\ mstep = 0 /\ mpc = "off" /\ mlog = <<>>
MaskIdle == grid = <<>> /\ cuts = <<>> /\ wmask = <<>> /\ geo = <<>>

----------------------------------------------------------------------------
(* Optional values *)

None == <<>>
Some(v) == <<v>>
IsNone(x) == x = <<>>
Val(x) == x[1]

----------------------------------------------------------------------------
(* Bounds of the model *)

MaxClaims == 2      \* claims in one batch
MaxWells == 4       \* rows of the groundwater CSV in the query specification
MaxK == 3           \* largest k of a groundwater query

----------------------------------------------------------------------------
(* Numeric helpers *)

Abs(x) == IF x < 0 THEN -x ELSE x

\* Nearest integer to num/den (den > 0, num >= 0), ties to even: Python's round()
\* on a value that is exactly representable.
RoundHalfEven(num, den) ==
    LET fl == num \div den
        r2 == 2 * (num % den)
    IN  IF r2 < den THEN fl
        ELSE IF r2 > den THEN fl + 1
        ELSE IF fl % 2 = 0 THEN fl ELSE fl + 1

RECURSIVE SumSeq(_)
SumSeq(s) == IF s = <<>> THEN 0 ELSE Head(s) + SumSeq(Tail(s))

RECURSIVE SelectSeqBy(_, _)
\* the subsequence of s at the positions whose element is in set keep
SelectSeqBy(s, keep) ==
    IF s = <<>> THEN <<>>
    ELSE IF Head(s) \in keep THEN <<Head(s)>> \o SelectSeqBy(Tail(s), keep)
    ELSE SelectSeqBy(Tail(s), keep)

----------------------------------------------------------------------------
(* Coordinate text: str.split(","), str.strip(), float()                   *)
(* A text is a sequence of one-character strings.                          *)

Digits == {"0", "1", "2", "3", "4", "5", "6", "7", "8", "9"}

DigitVal(c) ==
    CASE c = "0" -> 0 [] c = "1" -> 1 [] c = "2" -> 2 [] c = "3" -> 3
      [] c = "4" -> 4 [] c = "5" -> 5 [] c = "6" -> 6 [] c = "7" -> 7
      [] c = "8" -> 8 [] c = "9" -> 9

RECURSIVE Split(_)
\* text.split(","): the fields between commas; always at least one field
Split(text) ==
    IF \A j \in 1..Len(text) : text[j] # ","
    THEN <<text>>
    ELSE LET p == CHOOSE j \in 1..Len(text) :
                      text[j] = "," /\ \A m \in 1..(j-1) : text[m] # ","
         IN  <<SubSeq(text, 1, p - 1)>> \o Split(SubSeq(text, p + 1, Len(text)))

RECURSIVE Strip(_)
\* c.strip(): leading and trailing blanks removed
Strip(field) ==
    IF field = <<>> THEN field
    ELSE IF Head(field) = " " THEN Strip(Tail(field))
    ELSE IF field[Len(field)] = " " THEN Strip(SubSeq(field, 1, Len(field) - 1))
    ELSE field

RECURSIVE DecimalValue(_)
DecimalValue(field) ==
    IF field = <<>> THEN 0
    ELSE 10 * DecimalValue(SubSeq(field, 1, Len(field) - 1)) + DigitVal(field[Len(field)])

\* float(field) on the texts of CoordTexts: an unsigned run of digits parses to its
\* value, anything else raises ValueError (None here).
ParseFloat(field) ==
    IF field # <<>> /\ \A j \in 1..Len(field) : field[j] \in Digits
    THEN Some(DecimalValue(field))
    ELSE None

\* asset_evaluator.py:173-184.  coords is None (the field is missing: .split raises
\* AttributeError before `parts` is assigned) or Some(text).  prev is the value of
\* `parts` left by the previous iteration (None while still unbound).
\* Result: [lat, lon] (both None when the claim is rejected) and the new `parts`.
SecondTry(p) ==
    \* except-branch: lon = float(parts[0]); lat = float(parts[1])
    IF IsNone(p) \/ Len(Val(p)) < 2 THEN [lat |-> None, lon |-> None]
    ELSE LET lo == ParseFloat(Val(p)[1])
             la == ParseFloat(Val(p)[2])
         IN  IF IsNone(lo) \/ IsNone(la) THEN [lat |-> None, lon |-> None]
             ELSE [lat |-> la, lon |-> lo]

NewParts(coords, prev) ==
    IF IsNone(coords) THEN prev
    ELSE LET f == Split(Val(coords))
         IN  Some([j \in 1..Len(f) |-> Strip(f[j])])

ParseCoords(coords, prev) ==
    LET p == NewParts(coords, prev)
    IN  IF IsNone(coords) \/ Len(Val(p)) # 2 THEN SecondTry(p)
        ELSE LET la == ParseFloat(Val(p)[1])
                 lo == ParseFloat(Val(p)[2])
             IN  IF IsNone(la) \/ IsNone(lo) THEN SecondTry(p)
                 ELSE [lat |-> la, lon |-> lo]

----------------------------------------------------------------------------
(* Groundwater: ai_models/groundwater_offline.py                            *)

\* A CSV row is [StationCode, Lat, Lon, WaterLevel_m_bgl]; Lat, Lon and the level
\* are None where pd.to_numeric(errors="coerce") yields NaN.
\* groundwater_offline.py:38-44: rows without Lat or Lon are dropped, rows
\* without a water level are kept.
DropInvalid(rows) ==
    SelectSeqBy(rows, {r \in {rows[j] : j \in 1..Len(rows)} :
                           ~IsNone(r.Lat) /\ ~IsNone(r.Lon)})

\* groundwater_offline.py:22-44 with the CSV present
_load_wells(rows) == DropInvalid(rows)

\* groundwater_offline.py:10-19, in um (1e-6 km), tabulated from the source
\* function on the whole-degree points the model uses (latitudes 20, 21, 23,
\* longitude differences 0 and 1).  The function is symmetric in the two
\* latitudes and in the sign of the longitude difference.
_haversine(lat1, lon1, lat2, lon2) ==
    LET lo == IF lat1 <= lat2 THEN lat1 ELSE lat2
        hi == IF lat1 <= lat2 THEN lat2 ELSE lat1
        dl == Abs(lon2 - lon1)
    IN  CASE lo = hi /\ dl = 0 -> 0
          [] lo = 20 /\ hi = 21 /\ dl = 0 -> 111194927
          [] lo = 20 /\ hi = 23 /\ dl = 0 -> 333584780
          [] lo = 21 /\ hi = 23 /\ dl = 0 -> 222389853
          [] lo = 20 /\ hi = 20 /\ dl = 1 -> 104488897
          [] lo = 20 /\ hi = 21 /\ dl = 1 -> 152354111
          [] lo = 20 /\ hi = 23 /\ dl = 1 -> 349254468
          [] lo = 21 /\ hi = 21 /\ dl = 1 -> 103809238
          [] lo = 21 /\ hi = 23 /\ dl = 1 -> 245122067

\* groundwater_offline.py:59: the dist_km column
WithDist(rows, lat, lon) ==
    [j \in 1..Len(rows) |->
        [StationCode |-> rows[j].StationCode, Lat |-> rows[j].Lat, Lon |-> rows[j].Lon,
         WaterLevel_m_bgl |-> rows[j].WaterLevel_m_bgl,
         dist_km |-> _haversine(lat, lon, Val(rows[j].Lat), Val(rows[j].Lon))]]

\* um in a km: max_km is given in km
UmPerKm == 1000000

\* the radius filter left out
WithinRadiusNoFilter(rows, max_km) == rows

\* groundwater_offline.py:61-62: max_km is None (no filter) or Some(km)
WithinRadius(rows, max_km) ==
    IF IsNone(max_km) THEN rows
    ELSE SelectSeqBy(rows, {r \in {rows[j] : j \in 1..Len(rows)} :
                                r.dist_km <= Val(max_km) * UmPerKm})

\* groundwater_offline.py:67, df.sort_values("dist_km"): ascending, with the
\* default kind of sort (quicksort), which is not stable: rows of equal distance
\* come out in an order the call does not fix.  Insert gives every way of
\* putting r into an ascending sequence, sort_values every ascending
\* arrangement of the rows.
Insert(r, sorted) ==
    { SubSeq(sorted, 1, n) \o <<r>> \o SubSeq(sorted, n + 1, Len(sorted)) :
        n \in { m \in 0..Len(sorted) :
                  /\ \A j \in 1..m : sorted[j].dist_km <= r.dist_km
                  /\ \A j \in (m + 1)..Len(sorted) : r.dist_km <= sorted[j].dist_km } }

RECURSIVE SortedUpTo(_, _)
SortedUpTo(rows, n) ==
    IF n = 0 THEN {<<>>}
    ELSE UNION { Insert(rows[n], sorted) : sorted \in SortedUpTo(rows, n - 1) }

\* the sort left out: the rows stay in file order
sort_valuesFileOrder(rows) == {rows}

sort_values(rows) == SortedUpTo(rows, Len(rows))

\* groundwater_offline.py:67, .head(max(1, int(k)))
HeadCount(k) == IF k > 1 THEN k ELSE 1

head(rows, n) == SubSeq(rows, 1, IF n < Len(rows) THEN n ELSE Len(rows))

\* groundwater_offline.py:75, round(dist_km, 3): um -> m
UmPerM == 1000

Round3(um) == RoundHalfEven(um, UmPerM)

\* groundwater_offline.py:70-78
WellDict(r) ==
    [station_code |-> r.StationCode,
     depth_m_bgl  |-> r.WaterLevel_m_bgl,
     distance_km  |-> Round3(r.dist_km),
     well_lat     |-> Val(r.Lat),
     well_lon     |-> Val(r.Lon)]

\* groundwater_offline.py:47-79: the lists of wells the call can return, one for
\* each order the sort can give
groundwater_k_nearest(lat, lon, k, max_km, rows) ==
    LET df == WithinRadius(WithDist(_load_wells(rows), lat, lon), max_km)
    IN  IF df = <<>> THEN {<<>>}
        ELSE { [j \in 1..Len(top) |-> WellDict(top[j])] :
                 top \in { head(sorted, HeadCount(k)) : sorted \in sort_values(df) } }

\* groundwater_offline.py:96-97: the depths that are not None, and their mean
\* rounded to 2 decimals (cm); None when no sample has a depth
ValidDepths(wells) ==
    LET ws == SelectSeqBy(wells, {w \in {wells[j] : j \in 1..Len(wells)} :
                                       ~IsNone(w.depth_m_bgl)})
    IN  [j \in 1..Len(ws) |-> Val(ws[j].depth_m_bgl)]

\* the sum of the valid depths divided by the number of samples
AvgDepthOverSamples(wells) ==
    LET depths == ValidDepths(wells)
    IN  IF depths = <<>> THEN None
        ELSE Some(RoundHalfEven(SumSeq(depths), Len(wells)))

AvgDepth(wells) ==
    LET depths == ValidDepths(wells)
    IN  IF depths = <<>> THEN None
        ELSE Some(RoundHalfEven(SumSeq(depths), Len(depths)))

\* groundwater_offline.py:98
MinDist(wells) ==
    CHOOSE d \in {wells[j].distance_km : j \in 1..Len(wells)} :
        \A j \in 1..Len(wells) : d <= wells[j].distance_km

\* groundwater_offline.py:93-105: None, or Some(stats dict), for the wells found
StatsOf(wells) ==
    IF wells = <<>> THEN None
    ELSE Some([avg_depth_m_bgl |-> AvgDepth(wells),
               min_distance_km |-> MinDist(wells),
               k_used          |-> Len(wells),
               samples         |-> wells])

\* groundwater_offline.py:82-105: the answers the call can give, one for each
\* list of wells its own call of groundwater_k_nearest can return
groundwater_stats(lat, lon, k, max_km, rows) ==
    { StatsOf(wells) : wells \in groundwater_k_nearest(lat, lon, k, max_km, rows) }

----------------------------------------------------------------------------
(* Scheme scoring: asset_evaluator.recommend_schemes                        *)
(* Areas of a row are in cha (0.01 ha), the depth in cm, scores in tenths.  *)

\* asset_evaluator.py:35-38: None -> 0.0
OrZero(x) == IF IsNone(x) THEN 0 ELSE Val(x)

\* asset_evaluator.py:42-90: the scores dict, in insertion order
Scores(row) ==
    LET veg == OrZero(row.vegetation_area)
        wat == OrZero(row.water_area)
        urb == OrZero(row.urban_area)
        bar == OrZero(row.barren_area)
        gw  == row.groundwater_depth
        gwShallow == ~IsNone(gw) /\ Val(gw) <= 1500
        gwDeep    == ~IsNone(gw) /\ Val(gw) > 1500
        dry       == wat = 0 /\ (IsNone(gw) \/ Val(gw) > 1500)
        poor_land == veg < 200 /\ dry
        pmfby     == IF veg >= 100 THEN 15 ELSE IF veg >= 20 THEN 5 ELSE 0
    IN  << [name |-> "PM-KISAN",
            score |-> IF veg >= 200 THEN 20 ELSE IF veg >= 50 THEN 10 ELSE 0],
           [name |-> "PMFBY", score |-> pmfby],
           [name |-> "Soil Health Card", score |-> IF veg >= 50 THEN 10 ELSE 0],
           [name |-> "NMSA",
            score |-> IF veg >= 100 THEN 12 ELSE IF veg > 0 THEN 4 ELSE 0],
           [name |-> "Jal Jeevan Mission",
            score |-> IF wat > 0 THEN 20 ELSE IF gwShallow THEN 10 ELSE 2],
           [name |-> "PMKSY",
            score |-> IF wat > 0 \/ gwShallow \/ veg >= 200 THEN 15 ELSE 2],
           [name |-> "MGNREGA Water Works",
            score |-> IF wat > 0 \/ bar > 10 \/ gwDeep THEN 14 ELSE 3],
           [name |-> "PMAY-G",
            score |-> IF urb >= 100 THEN 20 ELSE IF urb >= 20 THEN 10 ELSE 0],
           [name |-> "Saubhagya (electrification)", score |-> IF urb > 0 THEN 10 ELSE 3],
           [name |-> "PM Ujjwala", score |-> IF urb > 0 THEN 8 ELSE 4],
           [name |-> "PMGSY (rural roads)",
            score |-> IF urb > 0 \/ veg > 100 THEN 10 ELSE 2],
           [name |-> "MGNREGA Land Dev",
            score |-> IF bar > 20 THEN 15 ELSE IF bar > 5 THEN 5 ELSE 0],
           [name |-> "RKVY", score |-> IF bar > 10 \/ veg > 50 THEN 10 ELSE 0],
           [name |-> "ITDP/TSP",
            score |-> IF veg < 200 /\ (urb > 0 \/ bar > 0) THEN 10 ELSE 4],
           [name |-> "MFP Scheme (TRIFED)", score |-> IF veg >= 100 THEN 18 ELSE 5],
           [name |-> "Van Dhan Yojana", score |-> IF veg >= 100 THEN 15 ELSE 4],
           [name |-> "Green India Mission", score |-> IF veg >= 100 THEN 12 ELSE 2],
           [name |-> "Jal Shakti (check dams/borewells)",
            score |-> IF poor_land THEN 18 ELSE IF dry THEN 6 ELSE 2],
           [name |-> "NRLM (SHG / livelihoods)",
            score |-> IF poor_land THEN 16 ELSE IF veg < 200 THEN 6 ELSE 2],
           [name |-> "Skill India", score |-> IF poor_land THEN 10 ELSE 4],
           [name |-> "PM Fasal Bima Yojana (detailed)", score |-> pmfby],
           [name |-> "Minor Irrigation / Micro-irrigation",
            score |-> IF veg >= 100 /\ (wat > 0 \/ gwShallow) THEN 10 ELSE 3] >>

\* asset_evaluator.py:93: zero scores removed
Scored(row) ==
    LET sc == Scores(row)
    IN  SelectSeqBy(sc, {x \in {sc[j] : j \in 1..Len(sc)} : x.score > 0})

\* asset_evaluator.py:99-103
priority_order ==
    << "PM-KISAN", "Jal Jeevan Mission", "PMAY-G", "PMFBY",
       "MGNREGA Water Works", "MFP Scheme (TRIFED)", "NRLM (SHG / livelihoods)",
       "MGNREGA Land Dev", "PMKSY", "Van Dhan Yojana", "NMSA", "Soil Health Card" >>

\* asset_evaluator.py:107-110: the 0-based index in priority_order, or len + 10
PriorityRank(name) ==
    IF \E j \in 1..Len(priority_order) : priority_order[j] = name
    THEN (CHOOSE j \in 1..Len(priority_order) : priority_order[j] = name) - 1
    ELSE Len(priority_order) + 10

\* the key without its second component: (-score) alone
KeyLeqScoreOnly(a, b) == a.score >= b.score

\* asset_evaluator.py:104-111: sort_key(a) <= sort_key(b) for the key (-score, rank)
KeyLeq(a, b) ==
    \/ a.score > b.score
    \/ a.score = b.score /\ PriorityRank(a.name) <= PriorityRank(b.name)

\* asset_evaluator.py:113, list.sort: stable
InsertScheme(x, sorted) ==
    LET n == Cardinality({j \in 1..Len(sorted) : KeyLeq(sorted[j], x)})
    IN  SubSeq(sorted, 1, n) \o <<x>> \o SubSeq(sorted, n + 1, Len(sorted))

RECURSIVE SchemesSortedUpTo(_, _)
SchemesSortedUpTo(s, n) ==
    IF n = 0 THEN <<>> ELSE InsertScheme(s[n], SchemesSortedUpTo(s, n - 1))

SortSchemes(s) == SchemesSortedUpTo(s, Len(s))

\* asset_evaluator.py:118-120
Canonical(name) == IF name = "PM Fasal Bima Yojana (detailed)" THEN "PMFBY" ELSE name

RECURSIVE Choose(_, _, _)
\* asset_evaluator.py:122-129: the loop over the sorted list; the length test
\* comes after the append.
Choose(scored, chosen, max_schemes) ==
    IF scored = <<>> THEN chosen
    ELSE LET c == Canonical(Head(scored).name)
         IN  IF \E j \in 1..Len(chosen) : chosen[j] = c
             THEN Choose(Tail(scored), chosen, max_schemes)
             ELSE IF Len(chosen) + 1 >= max_schemes
                  THEN Append(chosen, c)
                  ELSE Choose(Tail(scored), Append(chosen, c), max_schemes)

\* asset_evaluator.py:15-131
recommend_schemes(row, max_schemes) ==
    Choose(SortSchemes(Scored(row)), <<>>, max_schemes)

\* asset_evaluator.py:15, the default of max_schemes
DefaultMaxSchemes == 4

----------------------------------------------------------------------------
(* Geometry.  The plane around a claim is cut into six atoms (disjoint      *)
(* pieces); a polygon is the set of atoms it covers, so intersection is set *)
(* intersection and area is the sum of the atoms' areas.                    *)

Atoms == 1..6

\* area of an atom in mha, as measured in EPSG:3857
AtomArea(a) ==
    CASE a = 1 -> 4 [] a = 2 -> 96 [] a = 3 -> 400
      [] a = 4 -> 1500 [] a = 5 -> 500 [] a = 6 -> 1000

\* asset_evaluator.py:211-214: the atoms inside the claim's buffer
buff_geom_3857 == {1, 2, 3, 4, 5}

RECURSIVE area(_)
\* asset_evaluator.py:249, geometry.area
area(geom) ==
    IF geom = {} THEN 0
    ELSE LET a == CHOOSE x \in geom : TRUE IN AtomArea(a) + area(geom \ {a})

\* asset_evaluator.py:243-247: intersect with the buffer, drop what is left empty
Clip(gdf) ==
    LET cut == [j \in 1..Len(gdf) |->
                   [asset_type |-> gdf[j].asset_type,
                    geometry   |-> gdf[j].geometry \cap buff_geom_3857]]
    IN  SelectSeqBy(cut, {r \in {cut[j] : j \in 1..Len(cut)} : r.geometry # {}})

\* asset_evaluator.py:252-256
area_sum(detected_3857, asset_type) ==
    LET subset == SelectSeqBy(detected_3857,
                      {r \in {detected_3857[j] : j \in 1..Len(detected_3857)} :
                           r.asset_type = asset_type})
    IN  SumSeq([j \in 1..Len(subset) |-> area(subset[j].geometry)])

\* asset_evaluator.py:216-262.  mapped is what map_assets_from_satellite_image did:
\* [raised |-> TRUE] (any exception: provider error, timeout, empty raster) or
\* [raised |-> FALSE, gdf |-> the detected polygons].
Areas(mapped) ==
    LET detected_gdf  == IF mapped.raised THEN <<>> ELSE mapped.gdf
        detected_3857 == Clip(detected_gdf)
    IN  [farm   |-> area_sum(detected_3857, "cropland"),
         forest |-> area_sum(detected_3857, "forest"),
         water  |-> area_sum(detected_3857, "water_body"),
         urban  |-> area_sum(detected_3857, "urban"),
         barren |-> area_sum(detected_3857, "barren_land")]

\* the cropland term left out of the sum
VegetationAreaForestOnly(a) == a.forest

\* asset_evaluator.py:264
VegetationArea(a) == a.farm + a.forest

\* asset_evaluator.py:135-137, defaults of evaluate_assets
groundwater_max_depth_m == 1500
gw_max_km == 150

\* asset_evaluator.py:267-275
GwLocals(gw_info) ==
    IF IsNone(gw_info)
    THEN [depth_m |-> None, mean_dist_km |-> None, k_used |-> 0]
    ELSE [depth_m      |-> Val(gw_info).avg_depth_m_bgl,
          \* gw_info.get("mean_distance_km"): the stats dict has no such key
          mean_dist_km |-> None,
          k_used       |-> Val(gw_info).k_used]

\* asset_evaluator.py:277
GwOk(depth_m) == ~IsNone(depth_m) /\ Val(depth_m) <= groundwater_max_depth_m

\* asset_evaluator.py:280
VegMinMha == 2000

HasSufficientLand(vegetation_area) == vegetation_area >= VegMinMha

\* asset_evaluator.py:281
HasSurfaceWater(water_area_ha) == water_area_ha > 0

\* `land and water or gw_ok`: the parentheses of the rule left out
IsSufficientNoParens(vegetation_area, water_area_ha, depth_m) ==
    (HasSufficientLand(vegetation_area) /\ HasSurfaceWater(water_area_ha))
        \/ GwOk(depth_m)

\* asset_evaluator.py:283
IsSufficient(vegetation_area, water_area_ha, depth_m) ==
    HasSufficientLand(vegetation_area)
        /\ (HasSurfaceWater(water_area_ha) \/ GwOk(depth_m))

\* the water and groundwater items tested one by one, not under the joint test
ReasonsFlat(vegetation_area, water_area_ha, depth_m, k_used) ==
    (IF ~HasSufficientLand(vegetation_area) THEN <<"Vegetation < 2">> ELSE <<>>)
    \o (IF ~HasSurfaceWater(water_area_ha) THEN <<"no surface water">> ELSE <<>>)
    \o (IF GwOk(depth_m) THEN <<>>
        ELSE IF IsNone(depth_m) THEN <<"GW=unknown">> ELSE <<"GW > max">>)
    \o (IF k_used # 0 THEN <<"GW sampled">> ELSE <<>>)

\* asset_evaluator.py:288-300: the reasons of an Insufficient verdict, by kind
Reasons(vegetation_area, water_area_ha, depth_m, k_used) ==
    (IF ~HasSufficientLand(vegetation_area) THEN <<"Vegetation < 2">> ELSE <<>>)
    \o (IF ~(HasSurfaceWater(water_area_ha) \/ GwOk(depth_m))
        THEN (IF ~HasSurfaceWater(water_area_ha) THEN <<"no surface water">> ELSE <<>>)
             \o (IF IsNone(depth_m) THEN <<"GW=unknown">> ELSE <<"GW > max">>)
        ELSE <<>>)
    \o (IF k_used # 0 THEN <<"GW sampled">> ELSE <<>>)

\* asset_evaluator.py:283-301: the evaluation text, as [verdict, reasons]
Evaluation(vegetation_area, water_area_ha, depth_m, k_used) ==
    IF IsSufficient(vegetation_area, water_area_ha, depth_m)
    THEN [verdict |-> "Sufficient", reasons |-> <<>>]
    ELSE [verdict |-> "Insufficient",
          reasons |-> Reasons(vegetation_area, water_area_ha, depth_m, k_used)]

\* round(x, 2) of an area: mha -> cha
MhaPerCha == 10

Round2(mha) == RoundHalfEven(mha, MhaPerCha)

\* asset_evaluator.py:303-319
ResultRow(claim, a, g) ==
    LET row == [patta_holder      |-> claim.patta_holder,
                coordinates       |-> claim.coordinates,
                vegetation_area   |-> Some(Round2(VegetationArea(a))),
                water_area        |-> Some(Round2(a.water)),
                urban_area        |-> Some(Round2(a.urban)),
                barren_area       |-> Some(Round2(a.barren)),
                groundwater_depth |-> g.depth_m,
                gw_distance_to_well_km |-> g.mean_dist_km,
                gw_k_used         |-> g.k_used,
                evaluation        |-> Evaluation(VegetationArea(a), a.water,
                                                 g.depth_m, g.k_used)]
    IN  row @@ [recommended_schemes |-> recommend_schemes(row, DefaultMaxSchemes)]

\* asset_evaluator.py:187-201
InvalidRow(claim) ==
    [patta_holder      |-> claim.patta_holder,
     coordinates       |-> claim.coordinates,
     vegetation_area   |-> None,
     water_area        |-> None,
     urban_area        |-> None,
     barren_area       |-> None,
     groundwater_depth |-> None,
     gw_distance_to_well_km |-> None,
     gw_k_used         |-> 0,
     evaluation        |-> [verdict |-> "Insufficient",
                            reasons |-> <<"invalid coordinates">>],
     recommended_schemes |-> <<>>]

----------------------------------------------------------------------------
(* Inputs *)

\* coordinate fields of table fra_claims: None is a missing value
CoordTexts ==
    { None,
      Some(<<"2", "0", ",", "2", "0">>),
      Some(<<"2", "1", ",", " ", "2", "0">>),
      Some(<<"2", "0", ",", "2", "0", ",", "0">>),
      Some(<<"n", "o", "t", ",", "a", ",", "p", "o", "i", "n", "t">>),
      Some(<<"2", "0">>) }

Batches ==
    UNION { { [j \in 1..n |-> [patta_holder |-> j, coordinates |-> f[j]]] :
                f \in [1..n -> CoordTexts] } : n \in 0..MaxClaims }

\* rows of the groundwater CSV
Well20 == [StationCode |-> "S1", Lat |-> Some(20), Lon |-> Some(20),
           WaterLevel_m_bgl |-> Some(500)]
Well21 == [StationCode |-> "S2", Lat |-> Some(21), Lon |-> Some(20),
           WaterLevel_m_bgl |-> Some(2000)]
WellEast == [StationCode |-> "S3", Lat |-> Some(20), Lon |-> Some(21),
             WaterLevel_m_bgl |-> None]
Well23 == [StationCode |-> "S4", Lat |-> Some(23), Lon |-> Some(20),
           WaterLevel_m_bgl |-> Some(1250)]
WellNoLat == [StationCode |-> "S5", Lat |-> None, Lon |-> Some(20),
              WaterLevel_m_bgl |-> Some(300)]
Well21b == [StationCode |-> "S6", Lat |-> Some(21), Lon |-> Some(20),
            WaterLevel_m_bgl |-> Some(1000)]

CsvRows == {Well20, Well21, WellEast, Well23, WellNoLat, Well21b}

\* the CSV files of the batch specification
BatchCsvs ==
    { <<Well20, Well21, WellEast>>,
      <<Well21, Well23, WellNoLat>>,
      <<WellEast, Well23>>,
      <<Well23, WellNoLat>>,
      <<Well21, Well21b>> }

Poly(t, g) == [asset_type |-> t, geometry |-> g]

\* what the asset mapper can do for a claim
MapperOutcomes ==
    { [raised |-> TRUE],
      [raised |-> FALSE, gdf |-> <<>>],
      [raised |-> FALSE,
       gdf |-> <<Poly("forest", {1, 2, 3, 4, 5}), Poly("water_body", {1, 2})>>],
      [raised |-> FALSE,
       gdf |-> <<Poly("forest", {1, 2, 3, 4, 5, 6}), Poly("cropland", {5})>>],
      [raised |-> FALSE,
       gdf |-> <<Poly("cropland", {2, 3, 4}), Poly("water_body", {1}),
                 Poly("barren_land", {3})>>],
      [raised |-> FALSE,
       gdf |-> <<Poly("forest", {4}), Poly("cropland", {5}), Poly("urban", {6})>>],
      [raised |-> FALSE,
       gdf |-> <<Poly("urban", {3, 6}), Poly("barren_land", {1, 2})>>],
      [raised |-> FALSE, gdf |-> <<Poly("water_body", {6})>>],
      [raised |-> FALSE,
       gdf |-> <<Poly("forest", {5}), Poly("forest", {3}), Poly("water_body", {5})>>] }

----------------------------------------------------------------------------
(* evaluate_assets: one action per iteration of the loop over the claims    *)

NoQuery == [lat |-> 0, lon |-> 0, k |-> 0, max_km |-> None]
NoAnswer ==
    [called |-> FALSE, wells |-> <<>>, wells_csv |-> <<>>,
     stats_called |-> FALSE, stats |-> None, stats_csv |-> <<>>,
     raised |-> {}]
NoCall == [fn |-> "none", row |-> None, max_schemes |-> 0]

Init ==
    /\ claims \in Batches
    /\ csv_exists \in BOOLEAN
    /\ csv \in (IF csv_exists THEN BatchCsvs ELSE {<<>>})
    /\ gw_k \in {1, 3}
    /\ pc = "loop"
    /\ i = 1
    /\ parts = None
    /\ results = <<>>
    /\ calls = <<>>
    /\ fetches = 0
    /\ loads = 0
    /\ q = NoQuery
    /\ out = NoAnswer
    /\ inp = NoCall
    /\ hist = <<>>
    /\ CONFIG = ConfigLiteral
    /\ MapIdle
    /\ MaskIdle

\* asset_evaluator.py:186-202: the iteration of a claim whose coordinates are rejected
RejectClaim(claim) ==
    [row  |-> InvalidRow(claim),
     call |-> [valid |-> FALSE, lat |-> None, lon |-> None,
               mapper_called |-> FALSE, mapper_raised |-> FALSE,
               gw_called |-> FALSE, gw_info |-> None,
               areas |-> None, depth_m |-> None]]

\* the mapper call that escapes the try block, replaced by a rejection of the claim
EvaluateClaimFailClosed(claim, c, mapped, k, rows) ==
    IF mapped.raised
    THEN { [RejectClaim(claim) EXCEPT !.call.mapper_called = TRUE,
                                      !.call.mapper_raised = TRUE] }
    ELSE LET a == Areas(mapped)
         IN  { [row  |-> ResultRow(claim, a, GwLocals(gw_info)),
                call |-> [valid |-> TRUE, lat |-> c.lat, lon |-> c.lon,
                          mapper_called |-> TRUE, mapper_raised |-> mapped.raised,
                          gw_called |-> TRUE, gw_info |-> gw_info,
                          areas |-> Some(a), depth_m |-> GwLocals(gw_info).depth_m]] :
                 gw_info \in groundwater_stats(Val(c.lat), Val(c.lon), k,
                                               Some(gw_max_km), rows) }

\* asset_evaluator.py:204-320: the iteration of a claim at (c.lat, c.lon), given what
\* the mapper did: one outcome for each answer groundwater_stats can give
EvaluateClaim(claim, c, mapped, k, rows) ==
    LET a == Areas(mapped)
    IN  { [row  |-> ResultRow(claim, a, GwLocals(gw_info)),
           call |-> [valid |-> TRUE, lat |-> c.lat, lon |-> c.lon,
                     mapper_called |-> TRUE, mapper_raised |-> mapped.raised,
                     gw_called |-> TRUE, gw_info |-> gw_info,
                     areas |-> Some(a), depth_m |-> GwLocals(gw_info).depth_m]] :
            gw_info \in groundwater_stats(Val(c.lat), Val(c.lon), k,
                                          Some(gw_max_km), rows) }

\* the rejected claim ends the loop (`break` where the source has `continue`)
EvaluateInvalidBreaks ==
    /\ pc = "loop"
    /\ i <= Len(claims)
    /\ LET c == ParseCoords(claims[i].coordinates, parts)
       IN  /\ IsNone(c.lat) \/ IsNone(c.lon)
           /\ results' = Append(results, RejectClaim(claims[i]).row)
           /\ calls' = Append(calls, RejectClaim(claims[i]).call)
    /\ parts' = NewParts(claims[i].coordinates, parts)
    /\ i' = i + 1
    /\ pc' = "done"
    /\ UNCHANGED <<mapvars, maskvars, CONFIG, inp, hist, claims, csv_exists, csv, gw_k, fetches, loads, q, out>>

\* asset_evaluator.py:172-202: the claim's coordinates are rejected
EvaluateInvalid ==
    /\ pc = "loop"
    /\ i <= Len(claims)
    /\ LET c == ParseCoords(claims[i].coordinates, parts)
       IN  /\ IsNone(c.lat) \/ IsNone(c.lon)
           /\ results' = Append(results, RejectClaim(claims[i]).row)
           /\ calls' = Append(calls, RejectClaim(claims[i]).call)
    /\ parts' = NewParts(claims[i].coordinates, parts)
    /\ i' = i + 1
    /\ UNCHANGED <<mapvars, maskvars, CONFIG, inp, hist, claims, csv_exists, csv, gw_k, pc, fetches, loads, q, out>>

\* asset_evaluator.py:172-186, 204-320: the claim is evaluated; the mapper is
\* called once and groundwater_k_nearest reads the CSV once
EvaluateValid ==
    /\ pc = "loop"
    /\ i <= Len(claims)
    /\ csv_exists
    /\ LET c == ParseCoords(claims[i].coordinates, parts)
       IN  /\ ~IsNone(c.lat) /\ ~IsNone(c.lon)
           /\ \E mapped \in MapperOutcomes :
                \E e \in EvaluateClaim(claims[i], c, mapped, gw_k, csv) :
                    /\ results' = Append(results, e.row)
                    /\ calls' = Append(calls, e.call)
    /\ parts' = NewParts(claims[i].coordinates, parts)
    /\ i' = i + 1
    /\ fetches' = fetches + 1
    /\ loads' = loads + 1
    /\ UNCHANGED <<mapvars, maskvars, CONFIG, inp, hist, claims, csv_exists, csv, gw_k, pc, q, out>>

\* asset_evaluator.py:172-186, 204-267 and groundwater_offline.py:27-28, 55: the
\* claim's coordinates are accepted and the mapper is called; then groundwater_stats
\* calls groundwater_k_nearest, whose _load_wells raises FileNotFoundError because
\* the CSV does not exist.  Nothing catches it: evaluate_assets ends without a result.
EvaluateRaises ==
    /\ pc = "loop"
    /\ i <= Len(claims)
    /\ ~csv_exists
    /\ LET c == ParseCoords(claims[i].coordinates, parts)
       IN  ~IsNone(c.lat) /\ ~IsNone(c.lon)
    /\ parts' = NewParts(claims[i].coordinates, parts)
    /\ fetches' = fetches + 1
    /\ pc' = "raised"
    /\ UNCHANGED <<mapvars, maskvars, CONFIG, inp, hist, claims, csv_exists, csv, gw_k, i, results, calls, loads, q, out>>

\* asset_evaluator.py:169-170, 322: the loop is over, the rows are returned
Return ==
    /\ pc = "loop"
    /\ i > Len(claims)
    /\ pc' = "done"
    /\ UNCHANGED <<mapvars, maskvars, CONFIG, inp, hist, claims, csv_exists, csv, gw_k, i, parts, results, calls, fetches,
                   loads, q, out>>

Next == EvaluateInvalid \/ EvaluateValid \/ EvaluateRaises \/ Return

Spec == Init /\ [][Next]_vars

----------------------------------------------------------------------------
(* Groundwater queries on their own: the inputs are drawn by InitGW, the     *)
(* action applies groundwater_k_nearest and groundwater_stats to them.       *)

RECURSIVE SeqsNoRepeat(_, _)
\* the sequences of at most n distinct elements of S
SeqsNoRepeat(S, n) ==
    IF n = 0 THEN {<<>>}
    ELSE LET shorter == SeqsNoRepeat(S, n - 1)
             longest == {t \in shorter : Len(t) = n - 1}
         IN  shorter \cup
             UNION { { Append(t, x) : x \in S \ {t[j] : j \in 1..Len(t)} } :
                       t \in longest }

QueryPoints == { <<20, 20>>, <<21, 20>>, <<20, 21>> }

QueryRadii == { None, Some(100), Some(150), Some(250) }

InitGW ==
    /\ claims = <<>>
    /\ csv_exists = TRUE
    /\ csv \in SeqsNoRepeat(CsvRows, MaxWells)
    /\ gw_k = 3
    /\ pc = "query"
    /\ i = 1
    /\ parts = None
    /\ results = <<>>
    /\ calls = <<>>
    /\ fetches = 0
    /\ loads = 0
    /\ \E p \in QueryPoints, k \in 0..MaxK, r \in QueryRadii :
           q = [lat |-> p[1], lon |-> p[2], k |-> k, max_km |-> r]
    /\ out = NoAnswer
    /\ inp = NoCall
    /\ hist = <<>>
    /\ CONFIG = ConfigLiteral
    /\ MapIdle
    /\ MaskIdle

\* the variables the groundwater calls leave alone
gwrest ==
    <<mapvars, maskvars, inp, hist, CONFIG, claims, gw_k, i, parts, results, calls,
      fetches, q>>

\* groundwater_offline.py:47-79, a call of groundwater_k_nearest: it reads the
\* file as it is now
CallKNearest ==
    /\ pc \in {"query", "rewritten", "removed"}
    /\ ~out.called /\ "groundwater_k_nearest" \notin out.raised
    /\ csv_exists
    /\ \E wells \in groundwater_k_nearest(q.lat, q.lon, q.k, q.max_km, csv) :
          out' = [out EXCEPT !.called = TRUE, !.wells = wells, !.wells_csv = csv]
    /\ loads' = loads + 1
    /\ UNCHANGED <<csv_exists, csv, pc, gwrest>>

\* groundwater_offline.py:82-105, a call of groundwater_stats: its own call of
\* groundwater_k_nearest reads the file as it is now
CallStats ==
    /\ pc \in {"query", "rewritten", "removed"}
    /\ ~out.stats_called /\ "groundwater_stats" \notin out.raised
    /\ csv_exists
    /\ \E stats \in groundwater_stats(q.lat, q.lon, q.k, q.max_km, csv) :
          out' = [out EXCEPT !.stats_called = TRUE, !.stats = stats,
                             !.stats_csv = csv]
    /\ loads' = loads + 1
    /\ UNCHANGED <<csv_exists, csv, pc, gwrest>>

\* groundwater_offline.py:27-28, 55: the file is not there, _load_wells raises
\* FileNotFoundError out of the call
CallRaises ==
    /\ pc \in {"query", "rewritten", "removed"}
    /\ ~csv_exists
    /\ \E fn \in {"groundwater_k_nearest", "groundwater_stats"} :
          /\ fn \notin out.raised
          /\ fn = "groundwater_k_nearest" => ~out.called
          /\ fn = "groundwater_stats" => ~out.stats_called
          /\ out' = [out EXCEPT !.raised = @ \cup {fn}]
    /\ UNCHANGED <<csv_exists, csv, pc, loads, gwrest>>

\* the rows prepare_groundwater_csv.main keeps have a position and a level
\* (lines 58-63) and one row per station code (line 80)
PreparedCsvs ==
    { <<Well21>>, <<Well21b, Well21, Well20>> }

\* one of the two calls has been made, the other has not
BetweenCalls ==
    (out.called \/ "groundwater_k_nearest" \in out.raised)
        # (out.stats_called \/ "groundwater_stats" \in out.raised)

\* prepare_groundwater_csv.py:41-90, main(): the file is written anew (line 86)
\* between the two calls
PrepareCsv ==
    /\ pc = "query"
    /\ BetweenCalls
    /\ csv' \in PreparedCsvs
    /\ csv_exists' = TRUE
    /\ pc' = "rewritten"
    /\ UNCHANGED <<out, loads, gwrest>>

\* the file is taken away between the two calls (groundwater_offline.py:27
\* looks for it on every call)
RemoveCsv ==
    /\ pc = "query"
    /\ BetweenCalls
    /\ csv_exists
    /\ csv' = <<>>
    /\ csv_exists' = FALSE
    /\ pc' = "removed"
    /\ UNCHANGED <<out, loads, gwrest>>

NextGW == CallKNearest \/ CallStats \/ CallRaises \/ PrepareCsv \/ RemoveCsv

SpecGW == InitGW /\ [][NextGW]_vars

----------------------------------------------------------------------------
(* Properties of evaluate_assets, checked under Spec                        *)

Processed == 1..Len(results)

\* the areas (mha) the iteration of claim j computed
AreasOf(j) == Val(calls[j].areas)
VegOf(j) == AreasOf(j).farm + AreasOf(j).forest

\* the depth is known and at most 15 m
DepthOkOf(j) == ~IsNone(calls[j].depth_m) /\ Val(calls[j].depth_m) <= 1500

VerdictOf(j) == results[j].evaluation.verdict
ReasonsOf(j) == {results[j].evaluation.reasons[n] :
                     n \in 1..Len(results[j].evaluation.reasons)}

\* the coordinate field is exactly two comma-separated numbers
IsNumberText(t) ==
    LET f == Strip(t) IN f # <<>> /\ \A n \in 1..Len(f) : f[n] \in Digits

TwoNumbers(coords) ==
    /\ ~IsNone(coords)
    /\ LET t == Val(coords)
           commas == {n \in 1..Len(t) : t[n] = ","}
       IN  /\ Cardinality(commas) = 1
           /\ \A n \in commas : /\ IsNumberText(SubSeq(t, 1, n - 1))
                                /\ IsNumberText(SubSeq(t, n + 1, Len(t)))

\* C1: every claim with valid coordinates is evaluated, and its verdict is
\* Sufficient exactly when vegetation >= 2.0 ha and (surface water > 0 or the
\* groundwater depth is known and <= 15 m), Insufficient otherwise; 2.5 ha of
\* vegetation with 0.1 ha of water is Sufficient whatever the depth.
C1_VerdictRule ==
    \A j \in Processed :
        /\ TwoNumbers(claims[j].coordinates) => calls[j].valid
        /\ calls[j].valid =>
              /\ VerdictOf(j) \in {"Sufficient", "Insufficient"}
              /\ VerdictOf(j) = "Sufficient"
                    <=> (VegOf(j) >= 2000 /\ (AreasOf(j).water > 0 \/ DepthOkOf(j)))
              /\ (VegOf(j) = 2500 /\ AreasOf(j).water = 100)
                    => VerdictOf(j) = "Sufficient"

\* Scenario D with a groundwater depth that is not OK, and an Insufficient row
C1_Witness ==
    /\ \E j \in Processed :
          /\ TwoNumbers(claims[j].coordinates)
          /\ VegOf(j) = 2500 /\ AreasOf(j).water = 100
          /\ ~DepthOkOf(j)
          /\ VerdictOf(j) = "Sufficient"
    /\ \E j \in Processed : calls[j].valid /\ VerdictOf(j) = "Insufficient"

IsInvalidRow(j) ==
    /\ results[j].evaluation =
          [verdict |-> "Insufficient", reasons |-> <<"invalid coordinates">>]
    /\ results[j].recommended_schemes = <<>>
    /\ ~calls[j].mapper_called
    /\ ~calls[j].gw_called

\* C2: a claim whose coordinate text is missing or is not exactly two
\* comma-separated numbers gets the invalid row (Insufficient, invalid
\* coordinates; no recommendations) and neither the mapper nor the groundwater
\* lookup is called for it.
C2_MalformedRejected ==
    \A j \in Processed : ~TwoNumbers(claims[j].coordinates) => IsInvalidRow(j)

\* C3: the result holds one row per claim read so far, in input order, and once
\* evaluate_assets returns every claim of the batch has its row.
C3_OneRowPerClaim ==
    /\ Len(results) = i - 1
    /\ Len(results) <= Len(claims)
    /\ \A j \in Processed :
          /\ results[j].patta_holder = claims[j].patta_holder
          /\ results[j].coordinates = claims[j].coordinates
    /\ pc = "done" => Len(results) = Len(claims)

\* a rejected claim followed by a claim whose mapper failed, both with their row
C3_Witness ==
    /\ pc = "done"
    /\ Len(claims) >= 2
    /\ ~calls[1].valid
    /\ calls[2].valid /\ calls[2].mapper_raised

ZeroAreas == [farm |-> 0, forest |-> 0, water |-> 0, urban |-> 0, barren |-> 0]

\* C4: when the mapper fails, the claim is still evaluated: all class areas are
\* 0, the groundwater lookup runs, and the row carries a verdict and
\* recommendations.
C4_MapperFailure ==
    \A j \in Processed :
        calls[j].mapper_raised =>
            /\ calls[j].valid
            /\ AreasOf(j) = ZeroAreas
            /\ results[j].vegetation_area = Some(0)
            /\ results[j].water_area = Some(0)
            /\ results[j].urban_area = Some(0)
            /\ results[j].barren_area = Some(0)
            /\ calls[j].gw_called
            /\ results[j].gw_k_used =
                  (IF IsNone(calls[j].gw_info) THEN 0 ELSE Val(calls[j].gw_info).k_used)
            /\ VerdictOf(j) = "Insufficient"
            /\ "Vegetation < 2" \in ReasonsOf(j)
            /\ results[j].recommended_schemes # <<>>

\* a failed mapper call for a claim whose groundwater lookup found wells
C4_Witness ==
    \E j \in Processed :
        /\ calls[j].mapper_raised
        /\ ~IsNone(calls[j].gw_info)
        /\ results[j].gw_k_used > 0

IsNumber(x) == ~IsNone(x) /\ Val(x) >= 0

\* C5 as stated: in every row of the batch vegetation_area = forest + cropland
\* and every class area is a number >= 0.
C5_EveryRowNumeric ==
    \A j \in Processed :
        /\ IsNumber(results[j].vegetation_area)
        /\ IsNumber(results[j].water_area)
        /\ IsNumber(results[j].urban_area)
        /\ IsNumber(results[j].barren_area)
        /\ ~IsNone(calls[j].areas)
        /\ Val(results[j].vegetation_area) * 10 = VegOf(j)

\* x (cha) is v (mha) rounded to the nearest 0.01 ha
IsRounded(x, v) == ~IsNone(x) /\ Abs(10 * Val(x) - v) <= 5

\* C5 amended: in the row of every claim whose coordinates are accepted,
\* vegetation_area is forest + cropland rounded to 2 decimals and every class
\* area is a number >= 0 (the intersected area, rounded); in the row of a
\* rejected claim the four areas are None.
C5_Areas ==
    \A j \in Processed :
        IF calls[j].valid
        THEN /\ IsRounded(results[j].vegetation_area,
                          AreasOf(j).forest + AreasOf(j).farm)
             /\ IsRounded(results[j].water_area, AreasOf(j).water)
             /\ IsRounded(results[j].urban_area, AreasOf(j).urban)
             /\ IsRounded(results[j].barren_area, AreasOf(j).barren)
             /\ IsNumber(results[j].vegetation_area)
             /\ IsNumber(results[j].water_area)
             /\ IsNumber(results[j].urban_area)
             /\ IsNumber(results[j].barren_area)
        ELSE /\ IsNone(results[j].vegetation_area)
             /\ IsNone(results[j].water_area)
             /\ IsNone(results[j].urban_area)
             /\ IsNone(results[j].barren_area)

\* a row with forest and cropland whose sum is rounded, next to a rejected claim
C5_Witness ==
    /\ \E j \in Processed :
          /\ calls[j].valid
          /\ AreasOf(j).forest > 0 /\ AreasOf(j).farm > 0
          /\ Val(results[j].vegetation_area) * 10 = VegOf(j)
    /\ \E j \in Processed :
          /\ calls[j].valid
          /\ Val(results[j].vegetation_area) * 10 # VegOf(j)

GwItems == {"GW=unknown", "GW > max"}

\* C6 as stated: in an Insufficient verdict of a valid claim each item is
\* present exactly when its own sub-condition fails.
C6_ItemPerCondition ==
    \A j \in Processed :
        (calls[j].valid /\ VerdictOf(j) = "Insufficient") =>
            /\ "Vegetation < 2" \in ReasonsOf(j) <=> VegOf(j) < 2000
            /\ "no surface water" \in ReasonsOf(j) <=> AreasOf(j).water = 0
            /\ (ReasonsOf(j) \cap GwItems # {}) <=> ~DepthOkOf(j)

\* C6 amended: in an Insufficient verdict of a valid claim the vegetation item is
\* present iff vegetation < 2.0 ha; the no-surface-water item and a groundwater
\* item (unknown, or deeper than 15 m) are present, together, iff there is no
\* surface water and the depth is unknown or > 15 m.  For water = 0, depth = 20 m,
\* vegetation = 3.0 ha the verdict is Insufficient with the too-deep item.
C6_Reasons ==
    \A j \in Processed :
        /\ (calls[j].valid /\ VerdictOf(j) = "Insufficient") =>
              LET dry == AreasOf(j).water = 0 /\ ~DepthOkOf(j)
              IN  /\ "Vegetation < 2" \in ReasonsOf(j) <=> VegOf(j) < 2000
                  /\ "no surface water" \in ReasonsOf(j) <=> dry
                  /\ "GW=unknown" \in ReasonsOf(j) <=> (dry /\ IsNone(calls[j].depth_m))
                  /\ "GW > max" \in ReasonsOf(j) <=> (dry /\ ~IsNone(calls[j].depth_m))
        /\ (calls[j].valid /\ AreasOf(j).water = 0 /\ VegOf(j) = 3000
               /\ calls[j].depth_m = Some(2000)) =>
              /\ VerdictOf(j) = "Insufficient"
              /\ "GW > max" \in ReasonsOf(j)

\* Scenario B, and an Insufficient row without surface water whose groundwater is OK
C6_Witness ==
    /\ \E j \in Processed :
          /\ calls[j].valid /\ AreasOf(j).water = 0 /\ VegOf(j) = 3000
          /\ calls[j].depth_m = Some(2000)
          /\ "GW > max" \in ReasonsOf(j)
    /\ \E j \in Processed :
          /\ calls[j].valid /\ VerdictOf(j) = "Insufficient"
          /\ AreasOf(j).water = 0 /\ DepthOkOf(j)

----------------------------------------------------------------------------
(* Properties of the groundwater lookup                                     *)

\* the CSV rows (by position) that have coordinates and lie within max_km of
\* the point (lat, lon); every row with coordinates when max_km is None
Eligible(rows, lat, lon, max_km) ==
    {n \in 1..Len(rows) :
        /\ ~IsNone(rows[n].Lat) /\ ~IsNone(rows[n].Lon)
        /\ \/ IsNone(max_km)
           \/ _haversine(lat, lon, Val(rows[n].Lat), Val(rows[n].Lon))
                  <= Val(max_km) * 1000000}

\* the distance from the query point to row n of the file the call read
DistOfRow(n) ==
    _haversine(q.lat, q.lon, Val(out.wells_csv[n].Lat), Val(out.wells_csv[n].Lon))

Min(a, b) == IF a <= b THEN a ELSE b

\* C7: for k >= 1 the lookup returns the k nearest of the wells within max_km
\* (all of them when fewer qualify), in ascending order of distance: each
\* returned well is a distinct CSV row within max_km, no row left out is nearer
\* than a returned one, and the first distance is <= the last.
C7_KNearest ==
    (out.called /\ q.k >= 1) =>
        LET el == Eligible(out.wells_csv, q.lat, q.lon, q.max_km)
            W  == out.wells
        IN  /\ Len(W) = Min(q.k, Cardinality(el))
            /\ \E pick \in [1..Len(W) -> el] :
                  /\ \A a, b \in 1..Len(W) : a # b => pick[a] # pick[b]
                  /\ \A a \in 1..Len(W) :
                        /\ W[a].station_code = out.wells_csv[pick[a]].StationCode
                        /\ W[a].depth_m_bgl = out.wells_csv[pick[a]].WaterLevel_m_bgl
                        /\ Abs(W[a].distance_km * 1000 - DistOfRow(pick[a])) <= 500
                        /\ \A n \in el \ {pick[b] : b \in 1..Len(W)} :
                              DistOfRow(pick[a]) <= DistOfRow(n)
            /\ \A a, b \in 1..Len(W) : a < b => W[a].distance_km <= W[b].distance_km
            /\ Len(W) > 0 => W[1].distance_km <= W[Len(W)].distance_km

\* k wells returned out of more that qualify, nearer ones first, with a
\* qualifying well that comes earlier in the file left out
C7_Witness ==
    /\ out.called /\ q.k >= 2
    /\ Len(out.wells) = q.k
    /\ Cardinality(Eligible(out.wells_csv, q.lat, q.lon, q.max_km)) > q.k
    /\ out.wells[1].distance_km < out.wells[Len(out.wells)].distance_km
    /\ ~IsNone(q.max_km)
    /\ Cardinality(Eligible(out.wells_csv, q.lat, q.lon, q.max_km))
           < Len(out.wells_csv)
    /\ out.wells[1].station_code # out.wells_csv[1].StationCode

\* C8: for every integer k the lookup returns at most k wells and k_used <= k.
C8_AtMostK ==
    /\ out.called => Len(out.wells) <= q.k
    /\ (out.stats_called /\ ~IsNone(out.stats)) => Val(out.stats).k_used <= q.k

\* C9: a valid claim with no well within max_km gets the no-data answer (None)
\* from groundwater_stats, and its row reports an unknown depth with
\* gw_k_used = 0 and a verdict.
C9_NoData ==
    \A j \in Processed :
        (calls[j].valid
            /\ Eligible(csv, Val(calls[j].lat), Val(calls[j].lon), Some(150)) = {}) =>
            /\ calls[j].gw_called
            /\ IsNone(calls[j].gw_info)
            /\ IsNone(results[j].groundwater_depth)
            /\ results[j].gw_k_used = 0
            /\ VerdictOf(j) \in {"Sufficient", "Insufficient"}
            /\ "GW sampled" \notin ReasonsOf(j)

\* a valid claim whose nearest well is beyond the radius: Sufficient on surface
\* water alone, or Insufficient with the unknown-depth item
C9_Witness ==
    \E j \in Processed :
        /\ calls[j].valid
        /\ IsNone(calls[j].gw_info)
        /\ \E n \in 1..Len(csv) : ~IsNone(csv[n].Lat) /\ ~IsNone(csv[n].Lon)
        /\ results[j].gw_k_used = 0
        /\ "GW=unknown" \in ReasonsOf(j)

SamplesOf(st) == {st.samples[n] : n \in 1..Len(st.samples)}

MinDistanceOk(st) ==
    /\ \E w \in SamplesOf(st) : st.min_distance_km = w.distance_km
    /\ \A w \in SamplesOf(st) : st.min_distance_km <= w.distance_km

\* avg (cm) is sum / n rounded to the nearest cm
IsMean(avg, sum, n) == n > 0 /\ ~IsNone(avg) /\ 2 * Abs(Val(avg) * n - sum) <= n

\* C10 as stated: the average depth is the mean of the depths of exactly the
\* k_used samples.
C10_MeanOfAllSamples ==
    (out.stats_called /\ ~IsNone(out.stats)) =>
        LET st == Val(out.stats)
        IN  /\ st.k_used = Len(st.samples)
            /\ MinDistanceOk(st)
            /\ \A n \in 1..Len(st.samples) : ~IsNone(st.samples[n].depth_m_bgl)
            /\ IsMean(st.avg_depth_m_bgl,
                      SumSeq([n \in 1..Len(st.samples) |->
                                 Val(st.samples[n].depth_m_bgl)]),
                      st.k_used)

\* C10 amended: the average depth is the mean, rounded to 2 decimals, of the
\* depths of the samples that have a depth (None when no sample has one); the
\* minimum distance is the smallest distance among the samples and k_used is
\* the number of samples, which are wells the lookup can return for the file the
\* call read.
C10_Stats ==
    (out.stats_called /\ ~IsNone(out.stats)) =>
        LET st    == Val(out.stats)
            known == {n \in 1..Len(st.samples) : ~IsNone(st.samples[n].depth_m_bgl)}
            sum   == SumSeq([n \in 1..Len(st.samples) |->
                                IF n \in known THEN Val(st.samples[n].depth_m_bgl)
                                ELSE 0])
        IN  /\ st.samples \in
                  groundwater_k_nearest(q.lat, q.lon, q.k, q.max_km, out.stats_csv)
            /\ st.k_used = Len(st.samples)
            /\ st.k_used > 0
            /\ MinDistanceOk(st)
            /\ IF known = {} THEN IsNone(st.avg_depth_m_bgl)
               ELSE IsMean(st.avg_depth_m_bgl, sum, Cardinality(known))

\* samples with and without a depth, at different distances
C10_Witness ==
    /\ out.stats_called /\ ~IsNone(out.stats)
    /\ LET st == Val(out.stats)
       IN  /\ st.k_used >= 3
           /\ \E n \in 1..Len(st.samples) : IsNone(st.samples[n].depth_m_bgl)
           /\ Cardinality({n \in 1..Len(st.samples) :
                              ~IsNone(st.samples[n].depth_m_bgl)}) >= 2
           /\ st.min_distance_km < st.samples[Len(st.samples)].distance_km

----------------------------------------------------------------------------
(* The groundwater dataset as a resource of the process, checked under Spec  *)

\* C11: when the groundwater CSV is absent, the failure comes before any imagery
\* fetch or asset mapping and before any claim has its row, and no batch is
\* evaluated to completion.
C11_FailFast ==
    ~csv_exists => /\ fetches = 0
                   /\ results = <<>>
                   /\ pc # "done"

\* C12: over the claims of one process the well dataset is read from its source
\* exactly once: never more than once, and once when the batch is done.
C12_LoadedOnce ==
    /\ loads <= 1
    /\ pc = "done" => loads = 1

----------------------------------------------------------------------------
(* Rule engine: backend/scheme_engine.py                                    *)
(* A row holds areas in cha (0.01 ha), the depth in cm and the distance to   *)
(* the well in m (0.001 km).  Needs are in thousandths, priorities in tenths *)
(* of a point.                                                               *)

\* scheme_engine.py:36-39: float(row.get(key, 0) or 0)
FloatOrZero(x) == IF IsNone(x) THEN 0 ELSE Val(x)

\* scheme_engine.py:19-27, in thousandths; the divisions made are exact for the
\* two bands in use (0..0.5 ha and 0..5 ha) on areas in cha
score_band(x, lo, hi, invert) ==
    IF hi = lo THEN 0
    ELSE LET t       == (1000 * (x - lo)) \div (hi - lo)
             clipped == IF t < 0 THEN 0 ELSE IF t > 1000 THEN 1000 ELSE t
         IN  IF invert THEN 1000 - clipped ELSE clipped

\* scheme_engine.py:43-44
gw_known(gw_depth) == ~IsNone(gw_depth)
gw_ok(gw_depth) == gw_known(gw_depth) /\ Val(gw_depth) <= CONFIG.gw_ok_m

\* an unknown depth scored like a deep one
gw_needUnknownAsDeep(gw_depth) == IF gw_ok(gw_depth) THEN 0 ELSE 700

\* scheme_engine.py:48-51
water_need(water) == 1000 - score_band(water, 0, 50, FALSE)
gw_need(gw_depth) == IF gw_ok(gw_depth) THEN 0 ELSE IF gw_known(gw_depth) THEN 700 ELSE 500
veg_need(veg) == 1000 - score_band(veg, 0, 500, FALSE)
barren_need(barren) == score_band(barren, 0, 500, FALSE)

\* scheme_engine.py:53, in 1/100000
needs_score(veg, water, barren, gw_depth) ==
    35 * water_need(water) + 35 * gw_need(gw_depth)
        + 20 * veg_need(veg) + 10 * barren_need(barren)

\* round(needs_score * 100, 1): 1/100000 -> tenths of a point
PerTenth == 100

\* scheme_engine.py:54
overall_priority(veg, water, barren, gw_depth) ==
    RoundHalfEven(needs_score(veg, water, barren, gw_depth), PerTenth)

MinOf(a, b) == IF a <= b THEN a ELSE b

WaterInfra == "Rural Water Infra (e.g., Jal Jeevan Mission works/MGNREGA water conservation)"
LandDev == "MGNREGA Watershed/Soil & Moisture Conservation"
Livelihood == "Agroforestry / Allied livelihood support (NHB/Horticulture/State Mission)"
Convergence == "District Convergence (multi-dept) - water/irrigation priority"
DataGap == "Data gap note"

\* scheme_engine.py:59-73
WaterInfraRule(water, gw_depth, op) ==
    LET deep == gw_known(gw_depth) /\ Val(gw_depth) > CONFIG.gw_ok_m
    IN  IF water < CONFIG.water_min_ha \/ deep
        THEN << [scheme   |-> WaterInfra,
                 reason   |-> (IF water < CONFIG.water_min_ha
                               THEN <<"surface water low">> ELSE <<>>)
                              \o (IF deep THEN <<"groundwater deep">> ELSE <<>>)
                              \o (IF ~gw_known(gw_depth)
                                  THEN <<"groundwater unknown">> ELSE <<>>),
                 priority |-> MinOf(950, op + 100)] >>
        ELSE <<>>

\* the recommendation appended whatever the barren area is
LandDevRuleAlways(barren, op) ==
    << [scheme |-> LandDev, reason |-> <<"barren land">>,
        priority |-> MinOf(900, op + 50)] >>

\* scheme_engine.py:75-82
LandDevRule(barren, op) ==
    IF barren > 20
    THEN << [scheme |-> LandDev, reason |-> <<"barren land">>,
             priority |-> MinOf(900, op + 50)] >>
    ELSE <<>>

\* scheme_engine.py:84-91
LivelihoodRule(veg, op) ==
    IF veg >= CONFIG.veg_min_ha
    THEN << [scheme |-> Livelihood, reason |-> <<"adequate vegetation base">>,
             priority |-> MinOf(850, op)] >>
    ELSE <<>>

\* the flag under the trigger of the water rule: low water or a deep water table
ConvergenceRuleKnownOnly(water, gw_depth, op) ==
    IF water < CONFIG.water_min_ha
          \/ (gw_known(gw_depth) /\ Val(gw_depth) > CONFIG.gw_ok_m)
    THEN << [scheme |-> Convergence, reason |-> <<"combine line departments">>,
             priority |-> MinOf(880, op + 50)] >>
    ELSE <<>>

\* scheme_engine.py:93-100
ConvergenceRule(water, gw_depth, op) ==
    IF water < CONFIG.water_min_ha \/ ~gw_ok(gw_depth)
    THEN << [scheme |-> Convergence, reason |-> <<"combine line departments">>,
             priority |-> MinOf(880, op + 50)] >>
    ELSE <<>>

\* the note from the flag distance on: >= where the source has >
DataGapRuleAtLeast(gw_dist) ==
    IF ~IsNone(gw_dist) /\ Val(gw_dist) >= CONFIG.gw_far_km_flag
    THEN << [scheme |-> DataGap, reason |-> <<"nearest groundwater station is far">>,
             priority |-> 500] >>
    ELSE <<>>

\* scheme_engine.py:102-108: `gw_dist and gw_dist > flag`
DataGapRule(gw_dist) ==
    IF ~IsNone(gw_dist) /\ Val(gw_dist) # 0 /\ Val(gw_dist) > CONFIG.gw_far_km_flag
    THEN << [scheme |-> DataGap, reason |-> <<"nearest groundwater station is far">>,
             priority |-> 500] >>
    ELSE <<>>

\* scheme_engine.py:111, list.sort(key=priority, reverse=True): stable, so equal
\* priorities keep the order in which the rules appended them
InsertRec(x, sorted) ==
    LET n == Cardinality({j \in 1..Len(sorted) : sorted[j].priority >= x.priority})
    IN  SubSeq(sorted, 1, n) \o <<x>> \o SubSeq(sorted, n + 1, Len(sorted))

RECURSIVE RecsSortedUpTo(_, _)
RecsSortedUpTo(s, n) ==
    IF n = 0 THEN <<>> ELSE InsertRec(s[n], RecsSortedUpTo(s, n - 1))

SortRecs(s) == RecsSortedUpTo(s, Len(s))

\* scheme_engine.py:29-112: (recs, overall_priority)
recommend(row) ==
    LET veg      == FloatOrZero(row.vegetation_area)
        water    == FloatOrZero(row.water_area)
        barren   == FloatOrZero(row.barren_area)
        gw_depth == row.groundwater_depth
        gw_dist  == row.gw_distance_to_well_km
        op       == overall_priority(veg, water, barren, gw_depth)
        recs     == WaterInfraRule(water, gw_depth, op)
                    \o LandDevRule(barren, op)
                    \o LivelihoodRule(veg, op)
                    \o ConvergenceRule(water, gw_depth, op)
                    \o DataGapRule(gw_dist)
    IN  [recs |-> SortRecs(recs), overall_priority |-> op]

----------------------------------------------------------------------------
(* The two recommenders on their own: InitRec draws the call under test, the *)
(* actions make it, possibly among calls with other inputs.                  *)

MaxCalls == 3

\* metrics of a result row: areas in cha, depth in cm, distance in m
MetricRows ==
    { [vegetation_area |-> v, water_area |-> Some(w), urban_area |-> Some(u),
       barren_area |-> Some(b), groundwater_depth |-> g,
       gw_distance_to_well_km |-> d] :
        v \in {None, Some(0), Some(150), Some(199), Some(200), Some(650)},
        w \in {0, 4, 5, 20, 60},
        u \in {0, 30},
        b \in {0, 20, 21, 300, 700},
        g \in {None, Some(1500), Some(1501)},
        d \in {None, Some(100000), Some(100001)} }

\* values of parameter max_schemes
MaxSchemesValues == {0, 1, 4, 30}

RecInputs ==
    { [fn |-> "recommend", row |-> r, max_schemes |-> DefaultMaxSchemes] :
         r \in MetricRows }
    \cup { [fn |-> "recommend_schemes", row |-> r, max_schemes |-> k] :
              r \in MetricRows, k \in MaxSchemesValues }

\* the metrics of the calls made between two calls under test
OtherRow ==
    [vegetation_area |-> Some(300), water_area |-> Some(0),
     urban_area |-> Some(50), barren_area |-> Some(100),
     groundwater_depth |-> Some(2000),
     gw_distance_to_well_km |-> Some(120000)]

\* the value the call returns: (recs, overall_priority) of scheme_engine.recommend
\* or the list of asset_evaluator.recommend_schemes
Apply(in) ==
    IF in.fn = "recommend"
    THEN [recs             |-> recommend(in.row).recs,
          overall_priority |-> Some(recommend(in.row).overall_priority),
          chosen           |-> <<>>]
    ELSE [recs             |-> <<>>,
          overall_priority |-> None,
          chosen           |-> recommend_schemes(in.row, in.max_schemes)]

InitRec ==
    /\ claims = <<>>
    /\ csv_exists = TRUE
    /\ csv = <<>>
    /\ gw_k = 3
    /\ pc = "rec"
    /\ i = 1
    /\ parts = None
    /\ results = <<>>
    /\ calls = <<>>
    /\ fetches = 0
    /\ loads = 0
    /\ q = NoQuery
    /\ out = NoAnswer
    /\ inp \in RecInputs
    /\ hist = <<>>
    /\ CONFIG = ConfigLiteral
    /\ MapIdle
    /\ MaskIdle

\* a recommender that tunes its thresholds: the flag distance of CONFIG rises
\* to the farthest distance a call of recommend has seen
CallSubjectTuning ==
    /\ pc = "rec"
    /\ Len(hist) < MaxCalls
    /\ hist' = Append(hist, [in |-> inp, out |-> Apply(inp)])
    /\ CONFIG' = IF /\ inp.fn = "recommend"
                    /\ ~IsNone(inp.row.gw_distance_to_well_km)
                    /\ Val(inp.row.gw_distance_to_well_km) > CONFIG.gw_far_km_flag
                 THEN [CONFIG EXCEPT !.gw_far_km_flag =
                                        Val(inp.row.gw_distance_to_well_km)]
                 ELSE CONFIG
    /\ UNCHANGED <<mapvars, maskvars, claims, csv_exists, csv, gw_k, pc, i, parts, results,
                   calls, fetches, loads, q, out, inp>>

\* the call under test.  scheme_engine.py:29-112 reads CONFIG (lines 44, 60-64,
\* 85, 94, 103) and assigns to no key of it; asset_evaluator.py:15-131 builds
\* scores, scored, chosen and seen_canonical anew inside the call and reads
\* nothing of the module.  Neither assigns to a key of row.
CallSubject ==
    /\ pc = "rec"
    /\ Len(hist) < MaxCalls
    /\ hist' = Append(hist, [in |-> inp, out |-> Apply(inp)])
    /\ UNCHANGED <<mapvars, maskvars, CONFIG, claims, csv_exists, csv, gw_k, pc, i, parts,
                   results, calls, fetches, loads, q, out, inp>>

\* a call of the other recommender, with other metrics
CallOther ==
    /\ pc = "rec"
    /\ Len(hist) < MaxCalls
    /\ LET o == [fn  |-> IF inp.fn = "recommend" THEN "recommend_schemes"
                         ELSE "recommend",
                 row |-> OtherRow,
                 max_schemes |-> inp.max_schemes]
       IN  hist' = Append(hist, [in |-> o, out |-> Apply(o)])
    /\ UNCHANGED <<mapvars, maskvars, CONFIG, claims, csv_exists, csv, gw_k, pc, i, parts,
                   results, calls, fetches, loads, q, out, inp>>

NextRec == CallSubject \/ CallOther

SpecRec == InitRec /\ [][NextRec]_vars

----------------------------------------------------------------------------
(* Properties of the recommenders, checked under SpecRec                    *)

EngineCalls == {n \in 1..Len(hist) : hist[n].in.fn = "recommend"}
SchemeCalls == {n \in 1..Len(hist) : hist[n].in.fn = "recommend_schemes"}

\* the metrics of call n: a missing area counts as 0
AreaIn(x) == IF x = None THEN 0 ELSE x[1]
VegIn(n) == AreaIn(hist[n].in.row.vegetation_area)
WaterIn(n) == AreaIn(hist[n].in.row.water_area)
BarrenIn(n) == AreaIn(hist[n].in.row.barren_area)
DepthIn(n) == hist[n].in.row.groundwater_depth
DistIn(n) == hist[n].in.row.gw_distance_to_well_km
DepthUnknown(n) == DepthIn(n) = None
DepthDeep(n) == DepthIn(n) # None /\ DepthIn(n)[1] > 1500

RecsOf(n) == hist[n].out.recs
OverallOf(n) == hist[n].out.overall_priority[1]
Emitted(n, scheme) == \E j \in 1..Len(RecsOf(n)) : RecsOf(n)[j].scheme = scheme
PriorityOf(n, scheme) ==
    RecsOf(n)[CHOOSE j \in 1..Len(RecsOf(n)) : RecsOf(n)[j].scheme = scheme].priority

\* 100 x (0.35 water_need + 0.35 groundwater_need + 0.20 vegetation_need
\* + 0.10 barren_need) for the metrics of call n, in 1/100000 of a point x 100:
\* a value v stands for v / 1000 points
WeightedNeeds(n) ==
    LET clipW == IF WaterIn(n) >= 50 THEN 1000 ELSE 20 * WaterIn(n)
        clipV == IF VegIn(n) >= 500 THEN 1000 ELSE 2 * VegIn(n)
        clipB == IF BarrenIn(n) >= 500 THEN 1000 ELSE 2 * BarrenIn(n)
        gwN   == IF DepthUnknown(n) THEN 500 ELSE IF DepthDeep(n) THEN 700 ELSE 0
    IN  35 * (1000 - clipW) + 35 * gwN + 20 * (1000 - clipV) + 10 * clipB

PrioritiesInRange(n) ==
    /\ OverallOf(n) >= 0 /\ OverallOf(n) <= 1000
    /\ \A j \in 1..Len(RecsOf(n)) :
          RecsOf(n)[j].priority >= 0 /\ RecsOf(n)[j].priority <= 1000

\* C13 as stated: overall_priority is exactly 100 x the weighted sum of the four
\* needs, and it and every priority lie in [0, 100].
C13_ExactPriority ==
    \A n \in EngineCalls :
        /\ OverallOf(n) * 100 = WeightedNeeds(n)
        /\ PrioritiesInRange(n)

\* C13 amended: overall_priority is 100 x the weighted sum of the four needs
\* rounded to 1 decimal, and it and every priority lie in [0, 100].
C13_Priority ==
    \A n \in EngineCalls :
        /\ Abs(OverallOf(n) * 100 - WeightedNeeds(n)) < 50
        /\ PrioritiesInRange(n)

\* a call whose four needs are all strictly between their extremes and whose
\* weighted sum has more than one decimal
C13_Witness ==
    \E n \in EngineCalls :
        /\ WaterIn(n) = 20 /\ VegIn(n) = 199 /\ BarrenIn(n) = 300
        /\ DepthUnknown(n)
        /\ OverallOf(n) * 100 # WeightedNeeds(n)

\* C14: the water-infrastructure recommendation is emitted iff surface water
\* < 0.05 ha or the depth is > 15 m or the depth is unknown, and then its
\* priority is min(95, overall_priority + 10).
C14_WaterInfraIff ==
    \A n \in EngineCalls :
        /\ Emitted(n, WaterInfra)
              <=> (WaterIn(n) < 5 \/ DepthDeep(n) \/ DepthUnknown(n))
        /\ Emitted(n, WaterInfra)
              => PriorityOf(n, WaterInfra) = MinOf(950, OverallOf(n) + 100)

\* C15: land development is emitted iff barren > 0.2 ha and livelihood iff
\* vegetation >= 2.0 ha, each whatever the other rules do.
C15_Independent ==
    \A n \in EngineCalls :
        /\ Emitted(n, LandDev) <=> BarrenIn(n) > 20
        /\ Emitted(n, Livelihood) <=> VegIn(n) >= 200

\* the two recommendations in one result, next to the water recommendation
C15_Witness ==
    \E n \in EngineCalls :
        /\ BarrenIn(n) = 21 /\ VegIn(n) = 200
        /\ Emitted(n, LandDev) /\ Emitted(n, Livelihood)
        /\ Emitted(n, WaterInfra) /\ Emitted(n, Convergence)

\* C16: the convergence flag is emitted iff surface water < 0.05 ha or the depth
\* is unknown or > 15 m; never when water >= 0.05 ha with a known depth <= 15 m.
C16_Convergence ==
    \A n \in EngineCalls :
        Emitted(n, Convergence)
            <=> (WaterIn(n) < 5 \/ DepthUnknown(n) \/ DepthDeep(n))

\* the flag emitted for an unknown depth alone: surface water is there and the
\* water rule stays silent
C16_Witness ==
    \E n \in EngineCalls :
        /\ WaterIn(n) = 5 /\ DepthUnknown(n)
        /\ Emitted(n, Convergence)
        /\ ~Emitted(n, WaterInfra)

\* C17: the data-gap note is emitted iff the distance to the nearest well is
\* known and > 100 km, and its priority is then exactly 50.
C17_DataGap ==
    \A n \in EngineCalls :
        /\ Emitted(n, DataGap) <=> (DistIn(n) # None /\ DistIn(n)[1] > 100000)
        /\ Emitted(n, DataGap) => PriorityOf(n, DataGap) = 500

\* the note emitted just above the flag distance, with an overall priority far
\* from 50
C17_Witness ==
    \E n \in EngineCalls :
        /\ DistIn(n) = <<100001>> /\ Emitted(n, DataGap)
        /\ OverallOf(n) > 700

\* the fixed order of the rule engine's schemes
EngineOrder == <<WaterInfra, LandDev, Livelihood, Convergence, DataGap>>

\* the fixed order of recommend_schemes' schemes
SchemeOrder ==
    << "PM-KISAN", "Jal Jeevan Mission", "PMAY-G", "PMFBY",
       "MGNREGA Water Works", "MFP Scheme (TRIFED)", "NRLM (SHG / livelihoods)",
       "MGNREGA Land Dev", "PMKSY", "Van Dhan Yojana", "NMSA", "Soil Health Card",
       "Saubhagya (electrification)", "PM Ujjwala", "PMGSY (rural roads)", "RKVY",
       "ITDP/TSP", "Green India Mission", "Jal Shakti (check dams/borewells)",
       "Skill India", "Minor Irrigation / Micro-irrigation" >>

PosIn(order, name) == CHOOSE j \in 1..Len(order) : order[j] = name

\* the entries of answer n of recommend_schemes with the score the scores dict
\* gave them and their place in the fixed order
KeysOf(n) ==
    LET sc == Scores(hist[n].in.row)
        ch == hist[n].out.chosen
    IN  [a \in 1..Len(ch) |->
            [score |-> sc[CHOOSE j \in 1..Len(sc) : sc[j].name = ch[a]].score,
             pos   |-> PosIn(SchemeOrder, ch[a])]]

ScoreOf(n, a) == KeysOf(n)[a].score

\* C18: both recommenders return their list by non-increasing priority (score),
\* and two entries of equal priority stand in the order of one fixed list.
\* (Stated on neighbours: the order is a lexicographic one, hence transitive.)
C18_Ordered ==
    /\ \A n \in EngineCalls : \A a \in 1..(Len(RecsOf(n)) - 1) :
          \/ RecsOf(n)[a].priority > RecsOf(n)[a + 1].priority
          \/ /\ RecsOf(n)[a].priority = RecsOf(n)[a + 1].priority
             /\ PosIn(EngineOrder, RecsOf(n)[a].scheme)
                   < PosIn(EngineOrder, RecsOf(n)[a + 1].scheme)
    /\ \A n \in SchemeCalls :
          LET key == KeysOf(n)
          IN  \A a \in 1..(Len(key) - 1) :
                \/ key[a].score > key[a + 1].score
                \/ /\ key[a].score = key[a + 1].score
                   /\ key[a].pos < key[a + 1].pos

\* equal priorities in an answer of each recommender: two uncapped rule
\* priorities, and PMAY-G ahead of Soil Health Card at the same score
C18_Witness ==
    /\ \E n \in EngineCalls : \E a, b \in 1..Len(RecsOf(n)) :
          a < b /\ RecsOf(n)[a].priority = RecsOf(n)[b].priority
    /\ \E n \in SchemeCalls :
          LET ch == hist[n].out.chosen
          IN  \E a, b \in 1..Len(ch) :
                /\ a < b
                /\ ch[a] = "PMAY-G" /\ ch[b] = "Soil Health Card"
                /\ ScoreOf(n, a) = ScoreOf(n, b)

\* C19: two calls with identical metrics return identical lists, in the same
\* order and with the same priorities, whatever was called in between.
C19_Deterministic ==
    \A a, b \in 1..Len(hist) :
        hist[a].in = hist[b].in => hist[a].out = hist[b].out

\* the same metrics before and after a call with other metrics, the answer
\* holding several entries
C19_Witness ==
    /\ Len(hist) = 3
    /\ hist[1].in = hist[3].in
    /\ hist[2].in # hist[1].in
    /\ Len(hist[1].out.recs) + Len(hist[1].out.chosen) >= 3

\* C20: recommend_schemes returns at most max_schemes schemes.
C20_AtMostMax ==
    \A n \in SchemeCalls : Len(hist[n].out.chosen) <= hist[n].in.max_schemes

----------------------------------------------------------------------------
(* Further properties of evaluate_assets, checked under Spec                *)

\* C27: whether a claim is rejected, and the (lat, lon) it is evaluated at, depend
\* on its own coordinate field only: they are what the same field gives when the
\* claim is the first of its batch, whatever claims precede it.
C27_OwnFieldOnly ==
    \A j \in Processed :
        LET alone == ParseCoords(claims[j].coordinates, None)
        IN  /\ calls[j].valid <=> (~IsNone(alone.lat) /\ ~IsNone(alone.lon))
            /\ calls[j].valid => (calls[j].lat = alone.lat /\ calls[j].lon = alone.lon)

\* C29: when the lookup of a valid claim found wells, the row carries its
\* statistics: a distance to the well (a number), gw_k_used = k_used and
\* groundwater_depth = the average depth; the distance is None only when no well
\* was found.
C29_StatsCarried ==
    \A j \in Processed :
        calls[j].valid =>
            /\ ~IsNone(calls[j].gw_info) =>
                  /\ ~IsNone(results[j].gw_distance_to_well_km)
                  /\ results[j].gw_k_used = Val(calls[j].gw_info).k_used
                  /\ results[j].groundwater_depth = Val(calls[j].gw_info).avg_depth_m_bgl
            /\ IsNone(results[j].gw_distance_to_well_km) => IsNone(calls[j].gw_info)

\* C30: in the row of a valid claim the verdict is Sufficient iff the row's
\* vegetation_area >= 2.0 and (the row's water_area > 0 or the row's depth is
\* known and <= 15), and the row's areas (cha), from which the schemes are
\* computed, are the areas (mha) the verdict was decided on.
C30_RowAgrees ==
    \A j \in Processed :
        calls[j].valid =>
            /\ VerdictOf(j) = "Sufficient"
                  <=> /\ Val(results[j].vegetation_area) >= 200
                      /\ \/ Val(results[j].water_area) > 0
                         \/ /\ ~IsNone(results[j].groundwater_depth)
                            /\ Val(results[j].groundwater_depth) <= 1500
            /\ Val(results[j].vegetation_area) * 10 = VegOf(j)
            /\ Val(results[j].water_area) * 10 = AreasOf(j).water

----------------------------------------------------------------------------
(* Asset mapping: ai_models/asset_mapping.py as called by evaluate_assets.   *)
(* The claims of a batch are mapped one after the other; mlog records, for   *)
(* each step, the claim, the stage of the pipeline the step belongs to, what *)
(* it did and the files it wrote.                                            *)

MaxMapped == 2

\* asset_mapping.py:257-316, detect_assets in program order.  A fetch is
\* request.get_data() followed by the preview the fetcher saves.
Steps ==
    << [stage |-> "fetch",     what |-> "fetch_index NDVI",
        writes |-> {"debug_ndvi.png"}],
       [stage |-> "fetch",     what |-> "fetch_index NDWI",
        writes |-> {"debug_ndwi.png"}],
       [stage |-> "fetch",     what |-> "fetch_index MULTIBAND",
        writes |-> {"debug_multiband.png"}],
       [stage |-> "index",     what |-> "ndbi, bsi",
        writes |-> {"debug_ndbi.png", "debug_bsi.png"}],
       [stage |-> "index",     what |-> "mndwi",
        writes |-> {"debug_mndwi.png"}],
       [stage |-> "mask",      what |-> "water_mask",
        writes |-> {"debug_water_mask.png"}],
       [stage |-> "fetch",     what |-> "fetch_rgb",
        writes |-> {"truecolor_satellite.png"}],
       [stage |-> "mask",      what |-> "forest",      writes |-> {}],
       [stage |-> "vectorize", what |-> "forest",      writes |-> {}],
       [stage |-> "mask",      what |-> "cropland",    writes |-> {}],
       [stage |-> "vectorize", what |-> "cropland",    writes |-> {}],
       [stage |-> "vectorize", what |-> "water_body",  writes |-> {}],
       [stage |-> "mask",      what |-> "urban",       writes |-> {}],
       [stage |-> "vectorize", what |-> "urban",       writes |-> {}],
       [stage |-> "mask",      what |-> "barren_land", writes |-> {}],
       [stage |-> "vectorize", what |-> "barren_land", writes |-> {}] >>

\* how request.get_data() can fail
FetchFailures == {"provider error", "timeout"}

Event(step, result, writes) ==
    [claim |-> mi, stage |-> step.stage, what |-> step.what,
     result |-> result, writes |-> writes]

\* every variable but those of the asset-mapping steps
restvars ==
    <<claims, csv_exists, csv, gw_k, pc, i, parts, results, calls, fetches, loads,
      q, out, inp, hist, CONFIG, maskvars>>

InitMap ==
    /\ claims = <<>>
    /\ csv_exists = TRUE
    /\ csv = <<>>
    /\ gw_k = 3
    /\ pc = "map"
    /\ i = 1
    /\ parts = None
    /\ results = <<>>
    /\ calls = <<>>
    /\ fetches = 0
    /\ loads = 0
    /\ q = NoQuery
    /\ out = NoAnswer
    /\ inp = NoCall
    /\ hist = <<>>
    /\ CONFIG = ConfigLiteral
    /\ MaskIdle
    /\ mi = 0
    /\ mstep = 0
    /\ mpc = "idle"
    /\ mlog = <<>>

\* asset_evaluator.py:216-223 and asset_mapping.py:321-329: evaluate_assets calls
\* the mapper for the next claim, which calls detect_assets
StartClaim ==
    /\ mpc = "idle"
    /\ mi < MaxMapped
    /\ mi' = mi + 1
    /\ mstep' = 1
    /\ mpc' = "detect_assets"
    /\ UNCHANGED <<mlog, restvars>>

\* asset_mapping.py:172-185, 236-242: the provider answers, the preview is written
FetchReturns ==
    /\ mpc = "detect_assets"
    /\ mstep <= Len(Steps)
    /\ Steps[mstep].stage = "fetch"
    /\ mlog' = Append(mlog, Event(Steps[mstep], "data", Steps[mstep].writes))
    /\ mstep' = mstep + 1
    /\ UNCHANGED <<mi, mpc, restvars>>

\* asset_mapping.py:172, 236: request.get_data() raises.  Neither fetch_index,
\* fetch_rgb, detect_assets nor map_assets_from_satellite_image catches it: the
\* exception leaves the mapper and is caught by evaluate_assets
\* (asset_evaluator.py:225-227), which goes on with an empty GeoDataFrame.
FetchRaises ==
    /\ mpc = "detect_assets"
    /\ mstep <= Len(Steps)
    /\ Steps[mstep].stage = "fetch"
    /\ \E f \in FetchFailures :
          mlog' = mlog \o << Event(Steps[mstep], f, {}),
                             [claim |-> mi, stage |-> "vectorize",
                              what |-> "detect_assets", result |-> "raised",
                              writes |-> {}] >>
    /\ mpc' = "evaluate"
    /\ UNCHANGED <<mi, mstep, restvars>>

\* asset_mapping.py:275-288, 297-314: a step that computes an index, a mask or
\* the polygons of a mask
Compute ==
    /\ mpc = "detect_assets"
    /\ mstep <= Len(Steps)
    /\ Steps[mstep].stage # "fetch"
    /\ mlog' = Append(mlog, Event(Steps[mstep], "done", Steps[mstep].writes))
    /\ mstep' = mstep + 1
    /\ UNCHANGED <<mi, mpc, restvars>>

\* asset_mapping.py:316, 330: the GeoDataFrame is returned to evaluate_assets
ReturnGdf ==
    /\ mpc = "detect_assets"
    /\ mstep > Len(Steps)
    /\ mlog' = Append(mlog, [claim |-> mi, stage |-> "vectorize",
                             what |-> "detect_assets", result |-> "gdf",
                             writes |-> {}])
    /\ mpc' = "evaluate"
    /\ UNCHANGED <<mi, mstep, restvars>>

\* asset_evaluator.py:229-301: areas, groundwater lookup and verdict
Evaluate ==
    /\ mpc = "evaluate"
    /\ mlog' = Append(mlog, [claim |-> mi, stage |-> "evaluate",
                             what |-> "verdict", result |-> "done", writes |-> {}])
    /\ mpc' = "score"
    /\ UNCHANGED <<mi, mstep, restvars>>

\* asset_evaluator.py:303-320: the row, recommend_schemes, results.append
Score ==
    /\ mpc = "score"
    /\ mlog' = Append(mlog, [claim |-> mi, stage |-> "score",
                             what |-> "recommend_schemes", result |-> "done",
                             writes |-> {}])
    /\ mpc' = "idle"
    /\ UNCHANGED <<mi, mstep, restvars>>

NextMap ==
    StartClaim \/ FetchReturns \/ FetchRaises \/ Compute \/ ReturnGdf
        \/ Evaluate \/ Score

SpecMap == InitMap /\ [][NextMap]_vars

\* the events of claim c, in order
EventsOf(c) == SelectSeqBy(mlog, {e \in {mlog[n] : n \in 1..Len(mlog)} : e.claim = c})

Mapped == 1..mi

\* C21: the asset classifier never fails because of the imagery fetch: after a
\* failed fetch detect_assets returns an empty collection, it does not raise.
C21_FailsClosed ==
    \A n \in 1..Len(mlog) :
        mlog[n].what = "detect_assets" => mlog[n].result # "raised"

StageRank(stage) ==
    CASE stage = "fetch" -> 1 [] stage = "index" -> 2 [] stage = "mask" -> 3
      [] stage = "vectorize" -> 4 [] stage = "evaluate" -> 5 [] stage = "score" -> 6

\* C25: for each claim the stages run in the order fetch, index, mask, vectorize,
\* evaluate, score: no step of a stage comes after a step of a later stage.
C25_StageOrder ==
    \A c \in Mapped :
        LET ev == EventsOf(c)
        IN  \A a, b \in 1..Len(ev) :
              a < b => StageRank(ev[a].stage) <= StageRank(ev[b].stage)

\* C26: the evaluations of two different claims write no common resource.
C26_NoSharedWrites ==
    \A a, b \in 1..Len(mlog) :
        mlog[a].claim # mlog[b].claim => mlog[a].writes \cap mlog[b].writes = {}

(***************************************************************************)
(* The pixel functions of ai_models/asset_mapping.py: the water rule of     *)
(* detect_assets, clean_mask and the pixel-to-geographic mapping of         *)
(* mask_to_geopolygons.  Index values are in hundredths, coordinates in     *)
(* millionths of a degree.  A mask is a function from the pixels <<x, y>>   *)
(* (x the column, y the row) to 0..1.                                       *)
(***************************************************************************)

GridH == 2
GridW == 5
MaxSpecial == 1

Pixels == (0..(GridW - 1)) \X (0..(GridH - 1))

\* kinds of pixel, by their index values
PixelKind ==
    [Land    |-> [mndwi |-> -30, ndwi |-> -10, ndvi |-> 60, bsi |-> 10],
     Murky   |-> [mndwi |-> -10, ndwi |-> 0,   ndvi |-> 40, bsi |-> 5],
     Shallow |-> [mndwi |-> -10, ndwi |-> 10,  ndvi |-> 10, bsi |-> -5],
     Water   |-> [mndwi |-> 0,   ndwi |-> 20,  ndvi |-> 5,  bsi |-> -20]]

Kinds == { PixelKind[k] : k \in DOMAIN PixelKind }

\* the sets of at most k pixels of row 0
RECURSIVE PixelSetsUpTo(_)
PixelSetsUpTo(k) ==
    IF k = 0 THEN {{}}
    ELSE LET prev == PixelSetsUpTo(k - 1)
         IN  prev \cup { s \cup {p} : s \in prev, p \in { r \in Pixels : r[2] = 0 } }

\* index grids: a background of land or of murky ground with at most
\* MaxSpecial pixels of another kind, in row 0
Grids ==
    UNION { UNION { { [p \in Pixels |-> IF p \in s THEN f[p] ELSE base] :
                        f \in [s -> Kinds \ {base}] } :
                    s \in PixelSetsUpTo(MaxSpecial) } :
            base \in {PixelKind.Land, PixelKind.Murky} }

\* asset_mapping.py:286: the MNDWI cutoff of detect_assets
mndwi_cutoff == -5

\* the cutoff of the code and a looser one
Cutoffs == {mndwi_cutoff - 15, mndwi_cutoff}

\* the comparison of the water rule turned round
water_rawBelow(px, t) ==
    (px.mndwi < t) \/ ((px.ndwi > 5) /\ (px.ndvi < 30) /\ (px.bsi < 0))

\* asset_mapping.py:286, for one pixel, with the MNDWI cutoff t:
\* (mndwi > t) | ((ndwi > 0.05) & (ndvi < 0.30) & (bsi < 0.0))
water_raw(px, t) ==
    (px.mndwi > t) \/ ((px.ndwi > 5) /\ (px.ndvi < 30) /\ (px.bsi < 0))

\* asset_mapping.py:286-287: water_raw.astype(np.uint8) over the grid
RawMask(g, t) == [p \in Pixels |-> IF water_raw(g[p], t) THEN 1 ELSE 0]

\* the pixels of the image under the 3x3 kernel centred on p
Under(p) ==
    { r \in Pixels : r[1] - p[1] \in -1..1 /\ r[2] - p[2] \in -1..1 }

\* cv2.dilate with a 3x3 kernel of ones, on the set of the pixels that are 1:
\* the maximum under the kernel; pixels outside the image do not count
Dilate(ones) == { p \in Pixels : \E r \in Under(p) : r \in ones }

\* cv2.erode with a 3x3 kernel of ones, on the set of the pixels that are 1:
\* the minimum under the kernel; pixels outside the image do not count
Erode(ones) == { p \in Pixels : \A r \in Under(p) : r \in ones }

RECURSIVE DilateN(_, _)
DilateN(ones, n) == IF n = 0 THEN ones ELSE DilateN(Dilate(ones), n - 1)

RECURSIVE ErodeN(_, _)
ErodeN(ones, n) == IF n = 0 THEN ones ELSE ErodeN(Erode(ones), n - 1)

\* cv2.MORPH_CLOSE with iterations n: n dilations, then n erosions
MorphClose(ones, n) == ErodeN(DilateN(ones, n), n)

\* cv2.MORPH_OPEN with iterations n: n erosions, then n dilations
MorphOpen(ones, n) == DilateN(ErodeN(ones, n), n)

\* the pixels of a mask that are 1, and the mask of a set of pixels
Ones(mask) == { p \in Pixels : mask[p] > 0 }
AsMask(ones) == [p \in Pixels |-> IF p \in ones THEN 1 ELSE 0]

\* asset_mapping.py:132-142: m = (binary_mask > 0), the closing if close_iters,
\* the opening if open_iters, the dilation if dilate_iters
clean_mask_iters(binary_mask, close_iters, open_iters, dilate_iters) ==
    AsMask(DilateN(MorphOpen(MorphClose(Ones(binary_mask), close_iters),
                             open_iters),
                   dilate_iters))

\* clean_mask with its default parameters, as detect_assets calls it (line 287)
clean_mask(binary_mask) == clean_mask_iters(binary_mask, 2, 0, 3)

(* The coordinates are Python floats (IEEE 754 binary64, round to nearest,   *)
(* ties to even).  A float is [neg, man, exp] with the value man * 2^exp,     *)
(* man an odd natural number of at most MantissaBits bits (0 for zero), held  *)
(* as its digits in base LimbBase, lowest first, so that no step leaves the   *)
(* range of the integers.                                                    *)

MantissaBits == 53
LimbBits == 10
LimbBase == 2^LimbBits

RECURSIVE StripHigh(_)
\* the high zero digits removed
StripHigh(a) ==
    IF a # <<>> /\ a[Len(a)] = 0 THEN StripHigh(SubSeq(a, 1, Len(a) - 1)) ELSE a

RECURSIVE BigOfInt(_)
BigOfInt(n) == IF n = 0 THEN <<>> ELSE <<n % LimbBase>> \o BigOfInt(n \div LimbBase)

\* a + b
BigAdd(a, b) ==
    LET Limb(s, j) == IF j <= Len(s) THEN s[j] ELSE 0
        RECURSIVE AddFrom(_, _)
        AddFrom(j, carry) ==
            IF j > Len(a) /\ j > Len(b) THEN BigOfInt(carry)
            ELSE LET t == Limb(a, j) + Limb(b, j) + carry
                 IN  <<t % LimbBase>> \o AddFrom(j + 1, t \div LimbBase)
    IN  AddFrom(1, 0)

\* a - b for a >= b
BigSub(a, b) ==
    LET Limb(s, j) == IF j <= Len(s) THEN s[j] ELSE 0
        RECURSIVE SubFrom(_, _)
        SubFrom(j, borrow) ==
            IF j > Len(a) THEN <<>>
            ELSE LET t == Limb(a, j) - Limb(b, j) - borrow
                 IN  <<(t + LimbBase) % LimbBase>>
                         \o SubFrom(j + 1, IF t < 0 THEN 1 ELSE 0)
    IN  StripHigh(SubFrom(1, 0))

\* a < b
BigLess(a, b) ==
    LET RECURSIVE LessFrom(_)
        LessFrom(j) ==
            IF j = 0 THEN FALSE
            ELSE IF a[j] # b[j] THEN a[j] < b[j]
            ELSE LessFrom(j - 1)
    IN  IF Len(a) # Len(b) THEN Len(a) < Len(b) ELSE LessFrom(Len(a))

\* a * b, digit by digit
BigMul(a, b) ==
    LET RECURSIVE TimesDigit(_, _, _)
        TimesDigit(k, j, carry) ==
            IF j > Len(a) THEN BigOfInt(carry)
            ELSE LET t == a[j] * k + carry
                 IN  <<t % LimbBase>> \o TimesDigit(k, j + 1, t \div LimbBase)
        RECURSIVE MulFrom(_)
        MulFrom(j) ==
            IF j > Len(b) THEN <<>>
            ELSE LET rest == MulFrom(j + 1)
                 IN  BigAdd(StripHigh(TimesDigit(b[j], 1, 0)),
                            IF rest = <<>> THEN <<>> ELSE <<0>> \o rest)
    IN  MulFrom(1)

\* quotient and remainder of a by d, for 0 < d < 2^20
BigDivSmall(a, d) ==
    LET RECURSIVE DivFrom(_, _)
        DivFrom(j, rem) ==
            IF j = 0 THEN [q |-> <<>>, r |-> rem]
            ELSE LET cur  == rem * LimbBase + a[j]
                     rest == DivFrom(j - 1, cur % d)
                 IN  [q |-> Append(rest.q, cur \div d), r |-> rest.r]
        x == DivFrom(Len(a), 0)
    IN  [q |-> StripHigh(x.q), r |-> x.r]

\* a * 2^k
ShiftLeft(a, k) ==
    IF a = <<>> THEN <<>>
    ELSE [j \in 1..(k \div LimbBits) |-> 0] \o BigMul(a, <<2^(k % LimbBits)>>)

\* a \div 2^k
ShiftRight(a, k) ==
    BigDivSmall(SubSeq(a, (k \div LimbBits) + 1, Len(a)), 2^(k % LimbBits)).q

FZero == [neg |-> FALSE, man |-> <<>>, exp |-> 0]

\* the float of value m * 2^e for an m that fits the mantissa: the low zero
\* bits of m go to the exponent
Canon(neg, m, e) ==
    LET RECURSIVE LowZeros(_)
        LowZeros(n) == IF n % 2 = 1 THEN 0 ELSE 1 + LowZeros(n \div 2)
        RECURSIVE TrailingZeros(_)
        TrailingZeros(a) ==
            IF a[1] = 0 THEN LimbBits + TrailingZeros(Tail(a)) ELSE LowZeros(a[1])
    IN  IF m = <<>> THEN FZero
        ELSE [neg |-> neg, man |-> ShiftRight(m, TrailingZeros(m)),
              exp |-> e + TrailingZeros(m)]

\* m * 2^e rounded to a float: to the nearest, ties to the even mantissa
FRound(neg, m, e) ==
    LET RECURSIVE Bits(_)
        Bits(n) == IF n = 0 THEN 0 ELSE 1 + Bits(n \div 2)
        BitLen == IF m = <<>> THEN 0 ELSE LimbBits * (Len(m) - 1) + Bits(m[Len(m)])
        k == BitLen - MantissaBits
    IN  IF k <= 0 THEN Canon(neg, m, e)
        ELSE LET quo  == ShiftRight(m, k)
                 rem  == BigSub(m, ShiftLeft(quo, k))
                 half == ShiftLeft(<<1>>, k - 1)
                 up   == BigLess(half, rem) \/ (rem = half /\ quo[1] % 2 = 1)
             IN  Canon(neg, IF up THEN BigAdd(quo, <<1>>) ELSE quo, e + k)

\* a + b
FAdd(a, b) ==
    LET e0 == IF a.exp <= b.exp THEN a.exp ELSE b.exp
        am == ShiftLeft(a.man, a.exp - e0)
        bm == ShiftLeft(b.man, b.exp - e0)
    IN  IF a.neg = b.neg THEN FRound(a.neg, BigAdd(am, bm), e0)
        ELSE IF BigLess(am, bm) THEN FRound(b.neg, BigSub(bm, am), e0)
        ELSE FRound(a.neg, BigSub(am, bm), e0)

\* a - b
FSub(a, b) == FAdd(a, IF b.man = <<>> THEN b ELSE [b EXCEPT !.neg = ~@])

\* a * b
FMul(a, b) == FRound(a.neg # b.neg, BigMul(a.man, b.man), a.exp + b.exp)

\* the float nearest to n / d, for integers |n| < 2^31 and 0 < d < 2^20: the
\* quotient to 80 binary places, with one more bit that says whether anything
\* is left over
FRatio(n, d) ==
    IF n = 0 THEN FZero
    ELSE LET x == BigDivSmall(ShiftLeft(BigOfInt(IF n < 0 THEN -n ELSE n), 80), d)
         IN  FRound(n < 0,
                    BigAdd(ShiftLeft(x.q, 1), IF x.r = 0 THEN <<>> ELSE <<1>>),
                    -81)

\* a < b
FLess(a, b) == LET d == FSub(a, b) IN d.neg /\ d.man # <<>>

\* the float of a number of millionths, as float() reads a decimal text
FloatOf(millionths) == FRatio(millionths, 1000000)

\* asset_mapping.py:153: buffer_deg = 0.01, the margin fetch_index puts round
\* the claim
buffer_deg == FRatio(1, 100)

\* asset_mapping.py:152-155: the bounding box <<minx, miny, maxx, maxy>> of a
\* claim point given in millionths of a degree
BBoxOf(pt) ==
    << FSub(FloatOf(pt[1]), buffer_deg), FSub(FloatOf(pt[2]), buffer_deg),
       FAdd(FloatOf(pt[1]), buffer_deg), FAdd(FloatOf(pt[2]), buffer_deg) >>

\* claim points <<lon, lat>>: in central India, next to 0N 0E, and in the
\* south-west quarter of the globe
Points == { <<78000000, 21000000>>, <<-5000, 3000>>, <<-60000000, -30000000>> }

\* asset_mapping.py:147: the side of the image fetch_index asks for
DefaultSize == 1536

\* a mapping with row 0 in the south
PixelToGeoSouthUp(x, y, w, h, bbox) ==
    [lon |-> FAdd(bbox[1], FMul(FRatio(x, w), FSub(bbox[3], bbox[1]))),
     lat |-> FAdd(bbox[2], FMul(FRatio(y, h), FSub(bbox[4], bbox[2])))]

\* asset_mapping.py:190, 207-208: with minx, miny, maxx, maxy = bbox,
\* lon = minx + (x / w) * (maxx - minx); lat = maxy - (y / h) * (maxy - miny)
PixelToGeo(x, y, w, h, bbox) ==
    [lon |-> FAdd(bbox[1], FMul(FRatio(x, w), FSub(bbox[3], bbox[1]))),
     lat |-> FSub(bbox[4], FMul(FRatio(y, h), FSub(bbox[4], bbox[2])))]

InitMask ==
    /\ claims = <<>>
    /\ csv_exists = TRUE
    /\ csv = <<>>
    /\ gw_k = 3
    /\ pc = "mask"
    /\ i = 1
    /\ parts = None
    /\ results = <<>>
    /\ calls = <<>>
    /\ fetches = 0
    /\ loads = 0
    /\ q = NoQuery
    /\ out = NoAnswer
    /\ inp = NoCall
    /\ hist = <<>>
    /\ CONFIG = ConfigLiteral
    /\ MapIdle
    /\ wmask = <<>>
    /\ \/ /\ grid \in Grids
          /\ cuts \in { c \in Cutoffs \X Cutoffs : c[1] <= c[2] }
          /\ geo = <<>>
       \/ /\ grid = <<>>
          /\ cuts = <<>>
          /\ \E pt \in Points, w \in {1, GridW, DefaultSize},
                h \in {1, GridH, DefaultSize} :
               \E x \in {0, w \div 2, w - 1, w}, y \in {0, h \div 2, h - 1, h} :
                  geo = [bbox |-> BBoxOf(pt), w |-> w, h |-> h, x |-> x, y |-> y,
                         done |-> FALSE, lon |-> FZero, lat |-> FZero]

\* every variable but those of the pixel functions
nomaskvars ==
    <<claims, csv_exists, csv, gw_k, pc, i, parts, results, calls, fetches, loads,
      q, out, inp, hist, CONFIG, mapvars>>

\* asset_mapping.py:286: the raw water mask, for the looser and for the
\* stricter cutoff
Threshold ==
    /\ pc = "mask"
    /\ grid # <<>>
    /\ wmask = <<>>
    /\ wmask' = [stage |-> "raw",
                 loose |-> RawMask(grid, cuts[1]),
                 strict |-> RawMask(grid, cuts[2]),
                 again |-> <<>>]
    /\ UNCHANGED <<grid, cuts, geo, nomaskvars>>

\* asset_mapping.py:287: water_mask = clean_mask(water_raw.astype(np.uint8), ...)
Clean ==
    /\ pc = "mask"
    /\ wmask # <<>>
    /\ wmask.stage = "raw"
    /\ wmask' = [stage |-> "clean",
                 loose |-> clean_mask(wmask.loose),
                 strict |-> clean_mask(wmask.strict),
                 again |-> <<>>]
    /\ UNCHANGED <<grid, cuts, geo, nomaskvars>>

\* clean_mask applied to a mask it has cleaned
CleanAgain ==
    /\ pc = "mask"
    /\ wmask # <<>>
    /\ wmask.stage = "clean"
    /\ wmask' = [wmask EXCEPT !.stage = "again", !.again = clean_mask(wmask.strict)]
    /\ UNCHANGED <<grid, cuts, geo, nomaskvars>>

\* asset_mapping.py:205-209: one contour point is mapped
MapPixel ==
    /\ pc = "mask"
    /\ geo # <<>>
    /\ ~geo.done
    /\ LET g == PixelToGeo(geo.x, geo.y, geo.w, geo.h, geo.bbox)
       IN  geo' = [geo EXCEPT !.done = TRUE, !.lon = g.lon, !.lat = g.lat]
    /\ UNCHANGED <<grid, cuts, wmask, nomaskvars>>

NextMask == Threshold \/ Clean \/ CleanAgain \/ MapPixel

SpecMask == InitMask /\ [][NextMask]_vars

Mapped1 == geo # <<>> /\ geo.done

\* C23 as stated: the pixel-to-geographic mapping sends pixel (0, 0) to
\* (minx, maxy) and pixel (width, height) to (maxx, miny), for every bounding
\* box and grid size; row 0 is the northernmost row, every other row lies south
\* of it.
C23_Corners ==
    Mapped1 =>
        /\ (geo.x = 0 /\ geo.y = 0) =>
              (geo.lon = geo.bbox[1] /\ geo.lat = geo.bbox[4])
        /\ (geo.x = geo.w /\ geo.y = geo.h) =>
              (geo.lon = geo.bbox[3] /\ geo.lat = geo.bbox[2])
        /\ (geo.y = 0) => (geo.lat = geo.bbox[4])
        /\ (geo.y > 0) => FLess(geo.lat, geo.bbox[4])

\* a and b have the same sign and neither is more than twice the other: the
\* difference of two such floats is a float
WithinTwice(a, b) ==
    /\ a.man # <<>> /\ b.man # <<>> /\ a.neg = b.neg
    /\ ~FLess([FAdd(a, a) EXCEPT !.neg = FALSE], [b EXCEPT !.neg = FALSE])
    /\ ~FLess([FAdd(b, b) EXCEPT !.neg = FALSE], [a EXCEPT !.neg = FALSE])

\* C23 amended: pixel (0, 0) goes to (minx, maxy) for every bounding box and
\* grid size; pixel (width, height) goes to longitude maxx when minx and maxx
\* have the same sign and neither is more than twice the other, and to latitude
\* miny when miny and maxy are so; row 0 is the northernmost row.
C23_CornersExact ==
    Mapped1 =>
        /\ (geo.x = 0 /\ geo.y = 0) =>
              (geo.lon = geo.bbox[1] /\ geo.lat = geo.bbox[4])
        /\ (geo.x = geo.w /\ WithinTwice(geo.bbox[1], geo.bbox[3])) =>
              geo.lon = geo.bbox[3]
        /\ (geo.y = geo.h /\ WithinTwice(geo.bbox[2], geo.bbox[4])) =>
              geo.lat = geo.bbox[2]
        /\ (geo.y = 0) => (geo.lat = geo.bbox[4])
        /\ (geo.y > 0) => FLess(geo.lat, geo.bbox[4])

\* the far corner of a grid of more than one pixel has been mapped, for a box
\* whose bounds are within twice each other on both axes
C23_Witness ==
    /\ Mapped1
    /\ geo.w > 1 /\ geo.h > 1
    /\ geo.x = geo.w /\ geo.y = geo.h
    /\ WithinTwice(geo.bbox[1], geo.bbox[3])
    /\ WithinTwice(geo.bbox[2], geo.bbox[4])
    /\ geo.lon = geo.bbox[3] /\ geo.lat = geo.bbox[2]
    /\ FLess(geo.bbox[2], geo.bbox[4])

Cleaned == wmask # <<>> /\ wmask.stage \in {"clean", "again"}

\* C24: loosening the water threshold never shrinks the water mask: with cutoffs
\* t_loose <= t_strict every pixel of the cleaned mask obtained with t_strict
\* is also in the cleaned mask obtained with t_loose.
C24_Monotone ==
    Cleaned => \A p \in Pixels : wmask.strict[p] = 1 => wmask.loose[p] = 1

\* a strictly looser cutoff has given a strictly larger cleaned mask, and the
\* stricter mask is not empty
C24_Witness ==
    /\ Cleaned
    /\ cuts[1] < cuts[2]
    /\ \E p \in Pixels : wmask.strict[p] = 1
    /\ \E p \in Pixels : wmask.strict[p] = 0 /\ wmask.loose[p] = 1

\* C28: the cleanup is idempotent: clean_mask(clean_mask(m)) = clean_mask(m).
C28_Idempotent ==
    (wmask # <<>> /\ wmask.stage = "again") => wmask.again = wmask.strict

=============================================================================
